---------------------------- MODULE Spec2Model ----------------------------
(***************************************************************************)
(* Model of the agent backend of cf-agents-task: the integration-connection *)
(* registry (DbOperations over integration_connections), the tool resolver  *)
(* (getToolsForAgent) and the agent lifecycle (RouterAgent / CampaignAgent: *)
(* onConnect, onChatMessage, onClose) over the messages and sessions        *)
(* tables.                                                                  *)
(*                                                                          *)
(* Time is one wall clock `now`, read by every `new Date()` and by the      *)
(* database default now(); it advances only by the action Tick, so two      *)
(* reads may see the same instant.                                          *)
(***************************************************************************)
EXTENDS Naturals, Sequences, FiniteSets

VARIABLES
    now,                \* the wall clock
    integrationTable,   \* rows of integration_connections, in insertion order
    calls,              \* per caller: the connectIntegration call in flight
    budget,             \* number of storage-layer calls that may still start
    faults,             \* number of storage failures that may still occur
    res,                \* the getToolsForAgent call in progress
    lastWrite,          \* per pair: status of the write statement applied last
    lastCall,           \* the registry call that completed last
    agentType,          \* the agent class of the instance: its role
    dbManager,          \* this.dbManager: "null", or whether it holds a connection
    dbOps,              \* this.dbOps is not null
    connEnded,          \* end() was called on the connection this.dbOps uses
    sessionId,          \* this.sessionId
    messages,           \* this.messages: the in-memory transcript
    conns,              \* the physical connections now open
    opened,             \* the physical connections opened so far
    turn,               \* the chat turn in progress
    turnBudget,         \* number of chat turns that may still start
    nextContent,        \* the next fresh message content
    messagesTable,      \* rows of messages, in insertion order
    sessionsTable,      \* rows of sessions, in insertion order
    gate,               \* the threshold gate evaluated last
    lastClose,          \* what the onClose that completed last did
    sockets,            \* how many storage connections were created and ended
    retry,              \* the retry-wrapped DbOperations call made last
    promptsTable,       \* rows of prompts, in insertion order
    closing,            \* the onClose in progress, statement by statement
    toolExecutionsTable, \* rows of tool_executions, in insertion order
    tx,                 \* the deleteSession transaction in progress
    sessionCall,        \* the SessionStore call that completed last
    http                \* the /api/integrations request answered last

registryVars == <<integrationTable, calls, budget, lastWrite, lastCall>>

agentVars == <<agentType, sockets, dbManager, dbOps, connEnded, sessionId, messages, conns,
               opened, turn, turnBudget, nextContent, messagesTable,
               sessionsTable, gate, lastClose>>

sessionVars == <<toolExecutionsTable, tx, sessionCall>>

storeVars == <<retry, promptsTable, closing, sessionVars, http>>

vars == <<now, integrationTable, calls, budget, lastWrite, lastCall,
          faults, res, agentType, sockets, dbManager, dbOps, connEnded,
          sessionId, messages, conns, opened, turn, turnBudget, nextContent,
          messagesTable, sessionsTable, gate, lastClose, retry,
          promptsTable, closing, toolExecutionsTable, tx, sessionCall, http>>

(***************************************************************************)
(* Bounds of the model.                                                     *)
(***************************************************************************)
MaxClock == 2
MaxCalls == 3
MaxResolverCalls == 4
MaxFaults == 1
MaxTurns == 6
MaxTurnCalls == 2
MaxResolvedTurns == 2
MaxRetryCalls == 2
MaxStored == 4
MaxLimit == 2
MaxManagerCalls == 14
MaxTranscript == 3
MaxStoreCalls == 3
MaxDeleteCalls == 5
MaxHttpCalls == 4
MaxMessageCalls == 4
MaxDays == 2
MaxToolCalls == 3

Callers == {"a", "b"}

(***************************************************************************)
(* Values of the program.                                                   *)
(***************************************************************************)
RouterSessionId == "router-agent-persistent"
CampaignSessionId == "campaign-agent-persistent"

\* this.messages.length > 10
MessageThreshold == 10

\* getAgentMessages(agentType, 50)
RestoreLimit == 50

SessionIds == {CampaignSessionId, "S1"}

IntegrationNames == {"google-ads", "shopify", "posthog"}

Pairs == SessionIds \X IntegrationNames

NoCall == [pc |-> "idle", sessionId |-> "", integrationName |-> "",
           existing |-> FALSE, clean |-> TRUE, rowsBefore |-> 0]

NoLastCall == [op |-> "none", sessionId |-> "", integrationName |-> "",
               ts |-> 0, clean |-> TRUE, inserted |-> FALSE, rowsBefore |-> 0,
               result |-> <<>>, afterOp |-> "none", afterClean |-> TRUE,
               afterTs |-> 0, afterRowsBefore |-> 0]

(***************************************************************************)
(* DbOperations over integration_connections, as functions of the table.    *)
(***************************************************************************)
Matches(r, sid, integrationName) ==
    r.sessionId = sid /\ r.integrationName = integrationName

RowsOf(t, sid, integrationName) ==
    SelectSeq(t, LAMBDA r : Matches(r, sid, integrationName))

\* SELECT ... WHERE sessionId AND integrationName LIMIT 1
getIntegrationConnection(t, sid, integrationName) ==
    LET m == RowsOf(t, sid, integrationName)
    IN  IF m = <<>> THEN <<>> ELSE <<Head(m)>>

\* INSERT ... RETURNING; id, createdAt and updatedAt take the column defaults.
saveIntegrationConnection(t, connection, ts) ==
    Append(t, [id |-> Len(t) + 1,
               sessionId |-> connection.sessionId,
               integrationName |-> connection.integrationName,
               status |-> connection.status,
               credentials |-> "null",
               metadata |-> connection.metadata,
               lastSyncAt |-> connection.lastSyncAt,
               createdAt |-> ts,
               updatedAt |-> ts])

\* an update that forgets the status column
updateIntegrationConnectionKeepStatus(t, sid, integrationName, updates, ts) ==
    [i \in 1..Len(t) |->
        IF Matches(t[i], sid, integrationName)
        THEN [t[i] EXCEPT !.lastSyncAt = updates.lastSyncAt,
                          !.metadata = updates.metadata,
                          !.updatedAt = ts]
        ELSE t[i]]

\* UPDATE ... SET status, lastSyncAt, metadata, updatedAt WHERE pair
updateIntegrationConnection(t, sid, integrationName, updates, ts) ==
    [i \in 1..Len(t) |->
        IF Matches(t[i], sid, integrationName)
        THEN [t[i] EXCEPT !.status = updates.status,
                          !.lastSyncAt = updates.lastSyncAt,
                          !.metadata = updates.metadata,
                          !.updatedAt = ts]
        ELSE t[i]]

\* a connect that inserts whatever its SELECT returned
connectIntegrationAlwaysInsert(t, existing, sid, integrationName, metadata, ts) ==
    saveIntegrationConnection(t,
        [sessionId |-> sid, integrationName |-> integrationName,
         status |-> "connected", lastSyncAt |-> ts, metadata |-> metadata], ts)

\* The write of connectIntegration, chosen by what its SELECT returned.
connectIntegrationWrite(t, existing, sid, integrationName, metadata, ts) ==
    IF existing
    THEN updateIntegrationConnection(t, sid, integrationName,
             [status |-> "connected", lastSyncAt |-> ts, metadata |-> metadata], ts)
    ELSE saveIntegrationConnection(t,
             [sessionId |-> sid, integrationName |-> integrationName,
              status |-> "connected", lastSyncAt |-> ts, metadata |-> metadata], ts)

\* disconnect written as an upsert: it would create a disconnected row
disconnectIntegrationUpsert(t, sid, integrationName, ts) ==
    IF RowsOf(t, sid, integrationName) = <<>>
    THEN Append(t, [id |-> Len(t) + 1, sessionId |-> sid,
                    integrationName |-> integrationName,
                    status |-> "disconnected", credentials |-> "null",
                    metadata |-> "null", lastSyncAt |-> ts,
                    createdAt |-> ts, updatedAt |-> ts])
    ELSE [i \in 1..Len(t) |->
            IF Matches(t[i], sid, integrationName)
            THEN [t[i] EXCEPT !.status = "disconnected", !.updatedAt = ts]
            ELSE t[i]]

\* UPDATE ... SET status = 'disconnected', updatedAt WHERE pair RETURNING
disconnectIntegration(t, sid, integrationName, ts) ==
    [i \in 1..Len(t) |->
        IF Matches(t[i], sid, integrationName)
        THEN [t[i] EXCEPT !.status = "disconnected", !.updatedAt = ts]
        ELSE t[i]]

\* SELECT ... WHERE sessionId ORDER BY createdAt DESC.  Rows are appended with
\* createdAt = now and now never decreases, so the reverse of the insertion
\* order is an order by createdAt descending.
getSessionIntegrations(t, sid) ==
    LET m == SelectSeq(t, LAMBDA r : r.sessionId = sid)
    IN  [i \in 1..Len(m) |-> m[Len(m) + 1 - i]]

(***************************************************************************)
(* The tool catalogue and the resolver, getToolsForAgent.                   *)
(***************************************************************************)
\* integrations[name].tools: the tool names each catalogue entry lists
integrations ==
    [x \in IntegrationNames |->
        CASE x = "google-ads" ->
                {"getGoogleAdsStats", "getGoogleAdsPaymentInfo",
                 "getGoogleAdsCampaigns", "getGoogleAdsKeywords",
                 "getGoogleAdsAudienceInsights", "getGoogleAdsCompetitorAnalysis"}
          [] x = "shopify" ->
                {"getShopifyStoreStats", "getShopifyInventory", "getShopifyOrders",
                 "getShopifyCustomers", "getShopifyProducts", "getShopifyAnalytics"}
          [] x = "posthog" ->
                {"getPostHogEvents", "getPostHogFunnelAnalysis",
                 "getPostHogCohortAnalysis", "getPostHogUserSegments",
                 "getPostHogFeatureFlags", "getPostHogInsights"}]

\* the `name` property of every exported tool object; getGoogleAdsStats has none
googleAdsTools ==
    {[key |-> "getGoogleAdsStats", name |-> "undefined"],
     [key |-> "getPaymentInfo", name |-> "getGoogleAdsPaymentInfo"],
     [key |-> "getCampaigns", name |-> "getGoogleAdsCampaigns"],
     [key |-> "getKeywords", name |-> "getGoogleAdsKeywords"],
     [key |-> "getAudienceInsights", name |-> "getGoogleAdsAudienceInsights"],
     [key |-> "getCompetitorAnalysis", name |-> "getGoogleAdsCompetitorAnalysis"]}

shopifyTools ==
    {[key |-> "getStoreStats", name |-> "getShopifyStoreStats"],
     [key |-> "getInventory", name |-> "getShopifyInventory"],
     [key |-> "getOrders", name |-> "getShopifyOrders"],
     [key |-> "getCustomers", name |-> "getShopifyCustomers"],
     [key |-> "getProducts", name |-> "getShopifyProducts"],
     [key |-> "getAnalytics", name |-> "getShopifyAnalytics"]}

posthogTools ==
    {[key |-> "getEvents", name |-> "getPostHogEvents"],
     [key |-> "getFunnelAnalysis", name |-> "getPostHogFunnelAnalysis"],
     [key |-> "getCohortAnalysis", name |-> "getPostHogCohortAnalysis"],
     [key |-> "getUserSegments", name |-> "getPostHogUserSegments"],
     [key |-> "getFeatureFlags", name |-> "getPostHogFeatureFlags"],
     [key |-> "getInsights", name |-> "getPostHogInsights"]}

getAllTools == googleAdsTools \cup shopifyTools \cup posthogTools

\* the catalogue's tool names for which a tool object of that name exists
getToolsByIntegration(integrationName) ==
    {n \in integrations[integrationName] : \E t \in getAllTools : t.name = n}

\* the candidate integrations of each agent type, in order
agentToolMappings ==
    [a \in {"auto-agent", "campaign-agent"} |->
        IF a = "auto-agent" THEN <<"shopify", "posthog">>
        ELSE <<"google-ads", "shopify", "posthog">>]

AgentTypes == {"auto-agent", "campaign-agent", "router-agent"}

\* any row of the integration counts, whatever its status
isConnectedAnyRow(sessionIntegrations, integrationName) ==
    \E i \in 1..Len(sessionIntegrations) :
        sessionIntegrations[i].integrationName = integrationName

\* sessionIntegrations.some(conn => name matches && status === "connected")
isConnectedIn(sessionIntegrations, integrationName) ==
    \E i \in 1..Len(sessionIntegrations) :
        /\ sessionIntegrations[i].integrationName = integrationName
        /\ sessionIntegrations[i].status = "connected"

\* a resolver that excludes an integration it cannot check
DefaultClosed == FALSE

\* isConnected when the query throws or no session / storage handle is given
DefaultWhenUnknown == TRUE

NoRes == [pc |-> "idle", caller |-> "none", agentType |-> "", sessionId |-> "",
          dbOps |-> FALSE, idx |-> 0, tools |-> {},
          seen |-> [x \in IntegrationNames |-> "none"]]

(***************************************************************************)
(* DbOperations over sessions and messages, as functions of the tables.     *)
(***************************************************************************)
Reverse(q) == [i \in 1..Len(q) |-> q[Len(q) + 1 - i]]

Take(q, n) == IF Len(q) <= n THEN q ELSE SubSeq(q, 1, n)

\* an upsert that replaces the whole row on conflict
createSessionReplaces(t, data, ts) ==
    IF \E i \in 1..Len(t) : t[i].id = data.id
    THEN [i \in 1..Len(t) |->
            IF t[i].id = data.id
            THEN [id |-> data.id, agentType |-> data.agentType,
                  agentName |-> data.agentName, metadata |-> data.metadata,
                  createdAt |-> ts, updatedAt |-> ts]
            ELSE t[i]]
    ELSE Append(t, [id |-> data.id, agentType |-> data.agentType,
                    agentName |-> data.agentName, metadata |-> data.metadata,
                    createdAt |-> ts, updatedAt |-> ts])

\* INSERT ... ON CONFLICT (id) DO UPDATE SET updatedAt, metadata RETURNING
createSession(t, data, ts) ==
    IF \E i \in 1..Len(t) : t[i].id = data.id
    THEN [i \in 1..Len(t) |->
            IF t[i].id = data.id
            THEN [t[i] EXCEPT !.updatedAt = ts, !.metadata = data.metadata]
            ELSE t[i]]
    ELSE Append(t, [id |-> data.id, agentType |-> data.agentType,
                    agentName |-> data.agentName, metadata |-> data.metadata,
                    createdAt |-> ts, updatedAt |-> ts])

\* UPDATE sessions SET metadata, updatedAt WHERE id
updateSessionMetadata(t, id, metadata, ts) ==
    [i \in 1..Len(t) |->
        IF t[i].id = id
        THEN [t[i] EXCEPT !.metadata = metadata, !.updatedAt = ts]
        ELSE t[i]]

\* INSERT INTO messages ... RETURNING
saveMessage(t, data, ts) ==
    Append(t, [id |-> Len(t) + 1, agentType |-> data.agentType,
               sessionId |-> data.sessionId, role |-> data.role,
               content |-> data.content, metadata |-> data.metadata,
               createdAt |-> ts])

\* SELECT ... WHERE sessionId ORDER BY createdAt DESC
getSessionMessages(t, id) ==
    Reverse(SelectSeq(t, LAMBDA r : r.sessionId = id))

\* SELECT ... WHERE agentType ORDER BY createdAt DESC LIMIT limit.  Rows are
\* appended with createdAt = now and now never decreases, so the reverse of
\* the insertion order is an order by createdAt descending.
getAgentMessages(t, type, limit) ==
    Take(Reverse(SelectSeq(t, LAMBDA r : r.agentType = type)), limit)

\* cutoffDate = new Date(); cutoffDate.setDate(cutoffDate.getDate() -
\* olderThanDays), the clock counting days;
\* DELETE FROM messages WHERE createdAt = cutoffDate
deleteOldMessages(t, olderThanDays, ts) ==
    LET cutoffDate == ts - olderThanDays
    IN  SelectSeq(t, LAMBDA r : ~(r.createdAt = cutoffDate))

\* db.query.sessions.findFirst({ where: eq(sessions.id, sessionId) })
findSession(t, id) ==
    LET found == SelectSeq(t, LAMBDA r : r.id = id)
    IN  IF found = <<>> THEN <<>> ELSE <<found[1]>>

\* INSERT INTO tool_executions ... RETURNING
logToolExecution(t, data, ts) ==
    Append(t, [id |-> Len(t) + 1, sessionId |-> data.sessionId,
               toolName |-> data.toolName, input |-> data.input,
               output |-> "null", status |-> data.status,
               executedAt |-> ts])

\* UPDATE tool_executions SET output, status WHERE id RETURNING
updateToolExecution(t, id, output, status) ==
    [i \in 1..Len(t) |->
        IF t[i].id = id
        THEN [t[i] EXCEPT !.output = output, !.status = status]
        ELSE t[i]]

\* tx.delete(messages / toolExecutions).where(eq(sessionId, id))
deleteWhereSessionId(t, id) == SelectSeq(t, LAMBDA r : r.sessionId # id)

\* tx.delete(sessions).where(eq(sessions.id, id))
deleteWhereId(t, id) == SelectSeq(t, LAMBDA r : r.id # id)

\* statements run one by one outside a transaction: each takes effect as it
\* runs
autocommit(statement, done, commit) ==
    IF commit THEN {} ELSE {statement}

\* db.transaction(async (tx) => ...): the statements whose effect reaches the
\* tables in a step: all of them when the callback returns, none before
transaction(statement, done, commit) ==
    IF commit THEN done ELSE {}

\* the deleteSession in progress: the statement to run next, the statements
\* run, and how many rows of the session each table held when it began
NoTx == [pc |-> "idle", id |-> "", done |-> {}, outcome |-> "none",
         before |-> <<0, 0, 0>>]

NoSessionCall == [op |-> "none", id |-> "", result |-> "none", data |-> <<>>]

(***************************************************************************)
(* The /api/integrations routes of the fetch handler.                       *)
(***************************************************************************)
\* properties every object literal inherits from Object.prototype
ObjectPrototypeProperties == {"constructor", "toString"}

\* `integrations[integrationName]` is truthy: the catalogue is an object
\* literal, so the lookup also finds the properties it inherits
integrationsLookup(integrationName) ==
    integrationName \in (DOMAIN integrations) \cup ObjectPrototypeProperties

\* the names of all rows, whatever their status
connectedIntegrationsAnyStatus(sessionIntegrations) ==
    {sessionIntegrations[i].integrationName : i \in 1..Len(sessionIntegrations)}

\* new Set(sessionIntegrations.filter(status === "connected").map(name))
connectedIntegrations(sessionIntegrations) ==
    {sessionIntegrations[i].integrationName :
        i \in {j \in 1..Len(sessionIntegrations) :
                 sessionIntegrations[j].status = "connected"}}

\* isIntegrationConnected: `return true`
isIntegrationConnected(integrationName) == TRUE

\* getIntegrationStatus(name): connected: isIntegrationConnected(name),
\* toolsCount: integration.tools.length
getIntegrationStatus(integrationName) ==
    [connected |-> isIntegrationConnected(integrationName),
     toolsCount |-> Cardinality(integrations[integrationName])]

\* the `connected` of getIntegrationStatus, for every catalogue entry
DefaultConnected == {x \in DOMAIN integrations : isIntegrationConnected(x)}

\* a response: its status code, the `status` of its body, the integrations
\* its list reports connected, whether its registry call ran and threw, and
\* the storage connections the handler created and ended
NoHttp == [method |-> "none", name |-> "", sessionId |-> "", code |-> 0,
           status |-> "none", connected |-> {}, call |-> "none",
           created |-> 0, ended |-> 0]

(***************************************************************************)
(* DbOperations over prompts, and the retry loop that wraps createSession,  *)
(* getAgentMessages, getPromptByAgentType, createOrUpdatePrompt and         *)
(* getAllPrompts.                                                           *)
(***************************************************************************)
\* const maxRetries = 2
maxRetries == 2

\* SELECT ... FROM prompts WHERE agentType LIMIT 1; `prompt || null`
getPromptByAgentType(t, type) ==
    LET found == SelectSeq(t, LAMBDA r : r.agentType = type)
    IN  IF found = <<>> THEN <<>> ELSE <<found[1]>>

\* INSERT ... ON CONFLICT (agentType) DO UPDATE SET prompt, updatedAt RETURNING
createOrUpdatePrompt(t, data, ts) ==
    IF \E i \in 1..Len(t) : t[i].agentType = data.agentType
    THEN [i \in 1..Len(t) |->
            IF t[i].agentType = data.agentType
            THEN [t[i] EXCEPT !.prompt = data.prompt, !.updatedAt = ts]
            ELSE t[i]]
    ELSE Append(t, [agentType |-> data.agentType, prompt |-> data.prompt,
                    createdAt |-> ts, updatedAt |-> ts])

\* SELECT ... FROM prompts ORDER BY agentType
getAllPrompts(t) ==
    getPromptByAgentType(t, "campaign-agent")
        \o getPromptByAgentType(t, "router-agent")

RetryOps == {"createSession", "getAgentMessages", "getPromptByAgentType",
             "createOrUpdatePrompt", "getAllPrompts"}

\* the calls whose catch block ends with `return null`
SingleRecordOps == {"createSession", "getPromptByAgentType",
                    "createOrUpdatePrompt"}

\* the calls whose catch block ends with `throw error`
ListReadOps == {"getAgentMessages", "getAllPrompts"}

ErrorClasses == {"CONNECTION_ENDED", "OTHER"}

\* catch block: `return null`, or `throw error`
Terminal(op) == IF op \in SingleRecordOps THEN "null" ELSE "threw"

\* a catch block that tests `attempt <= maxRetries`
retryAfterErrorOffByOne(op, attempt, class) ==
    IF attempt <= maxRetries /\ class = "CONNECTION_ENDED"
    THEN "delay" ELSE Terminal(op)

\* a catch block that retries whatever the error is
retryAfterErrorAnyClass(op, attempt, class) ==
    IF attempt < maxRetries THEN "delay" ELSE Terminal(op)

\* catch block: attempt < maxRetries && error.code === "CONNECTION_ENDED"
retryAfterError(op, attempt, class) ==
    IF attempt < maxRetries /\ class = "CONNECTION_ENDED"
    THEN "delay" ELSE Terminal(op)

\* the statement after the for loop: `return null`, or `return []`
AfterLoop(op) == IF op \in SingleRecordOps THEN "null" ELSE "empty"

NoRetry == [op |-> "none", pc |-> "idle", arg |-> "", attempt |-> 0,
            attempts |-> 0, delays |-> 0, waited |-> 0, errors |-> <<>>,
            result |-> "none", value |-> <<>>, count |-> 0]

(***************************************************************************)
(* DatabaseManager: "conn" when it holds a connection (this.conn and        *)
(* this.db set), "noconn" when it holds none.  Each operation yields the    *)
(* manager's next state and the number of connections it created or ended.  *)
(***************************************************************************)
\* a getDb that opens a connection on every call
getDbAlwaysCreates(m) == [manager |-> "conn", created |-> 1]

\* getDb: postgres(...) only if (!this.db || !this.conn)
getDb(m) ==
    IF m = "noconn" THEN [manager |-> "conn", created |-> 1]
    ELSE [manager |-> m, created |-> 0]

\* a close whose finally block does not clear this.conn
closeKeepsConn(m) ==
    IF m = "conn" THEN [manager |-> "conn", ended |-> 1]
    ELSE [manager |-> m, ended |-> 0]

\* close: if (this.conn) { await this.conn.end() } finally { conn = null }
close(m) ==
    IF m = "conn" THEN [manager |-> "noconn", ended |-> 1]
    ELSE [manager |-> m, ended |-> 0]

\* connections are numbered as they are created; `current` is the one the
\* manager holds (0: none) and `returned` the one getDb handed out last
NoSockets == [created |-> 0, ended |-> 0, current |-> 0, returned |-> 0]

\* the connections after a getDb with outcome r
Acquired(k, r) ==
    LET id == IF r.created = 1 THEN k.created + 1 ELSE k.current
    IN  [k EXCEPT !.created = k.created + r.created,
                  !.current = id, !.returned = id]

\* the connections after a close with outcome r
Released(k, r) ==
    [k EXCEPT !.ended = k.ended + r.ended,
              !.current = IF r.manager = "noconn" THEN 0 ELSE k.current]

(***************************************************************************)
(* The agent instance: RouterAgent and CampaignAgent differ in their names  *)
(* only.                                                                    *)
(***************************************************************************)
AgentClasses == {"router-agent", "campaign-agent"}

\* a session id that is the role's on the first connect only
SessionIdPerConnection(type) ==
    IF opened # {} THEN "per-connection"
    ELSE IF type = "router-agent" THEN RouterSessionId ELSE CampaignSessionId

\* this.sessionId = `<agent type>-persistent`
PersistentSessionId(type) ==
    IF type = "router-agent" THEN RouterSessionId ELSE CampaignSessionId

\* a gate that also lets a transcript of exactly the threshold length through
AtOrOverThreshold(n) == n >= MessageThreshold

\* this.messages.length > 10
OverThreshold(n) == n > MessageThreshold

\* a storage call of the instance fails once its connection was ended
StorageUp == dbOps /\ ~connEnded

\* a restore that replays the rows in the order they were fetched
RestoredMessagesAsFetched(savedMessages) ==
    [i \in 1..Len(savedMessages) |->
        [role |-> savedMessages[i].role, content |-> savedMessages[i].content]]

\* the transcript restoreConversationHistory builds from the rows it fetched
RestoredMessages(savedMessages) ==
    LET sortedMessages == Reverse(savedMessages)
    IN  [i \in 1..Len(sortedMessages) |->
            [role |-> sortedMessages[i].role,
             content |-> sortedMessages[i].content]]

\* restoreConversationHistory on a successful read
restoreConversationHistory(ms, savedMessages) ==
    IF Len(savedMessages) > 0 THEN RestoredMessages(savedMessages) ELSE ms

\* the rows onClose writes for a transcript: one saveMessage per message
FlushRows(t, ms, type, id, ts) ==
    t \o [i \in 1..Len(ms) |->
            [id |-> Len(t) + i, agentType |-> type, sessionId |-> id,
             role |-> ms[i].role, content |-> ms[i].content,
             metadata |-> "savedOnClose", createdAt |-> ts]]

\* a flush that keeps the threshold gate of the live turns
flushOnCloseGated(t, ms, type, id, ts) ==
    IF OverThreshold(Len(ms)) THEN FlushRows(t, ms, type, id, ts) ELSE t

\* the loop of onClose over this.messages, every save succeeding
flushOnClose(t, ms, type, id, ts) == FlushRows(t, ms, type, id, ts)

NoTurn == [pc |-> "idle", budgetAtStart |-> 0, idleAtStart |-> TRUE,
           handed |-> {}, count |-> 0, error |-> "none"]

\* a catch block that lets the error of its failed save escape
RethrownOrStorageError(error, dbError) ==
    IF dbError THEN "storage" ELSE error

\* the catch block of onChatMessage ends with `throw error`: the error it
\* caught, whether or not the save of the error record failed
Rethrown(error, dbError) == error

NoGate == [kind |-> "none", len |-> 0, up |-> FALSE, wrote |-> 0]

NoClose == [count |-> 0, up |-> FALSE, len |-> 0, wrote |-> 0, appended |-> 0]

\* a loop that starts the next saveMessage without awaiting the one before
NotAwaited(inflight) == TRUE

\* `await this.dbOps.saveMessage(...)`: the statement after it runs once the
\* save has settled
Awaited(inflight) == inflight = {}

\* position of an onClose: the index of the next message of the loop, the
\* saves issued and not yet settled, and what the saves and the release did
NoClosing == [pc |-> "idle", idx |-> 0, inflight |-> {}, wrote |-> 0,
              failed |-> 0, pendingAtRelease |-> 0, released |-> FALSE]

(***************************************************************************)
(* The registry's callers.  connectIntegration is two statements with an    *)
(* await between them; disconnectIntegration is one statement.              *)
(***************************************************************************)
OthersInFlight(p) == \E q \in Callers \ {p} : calls[q].pc # "idle"

\* every call in flight has now been overlapped by another call
Overlapped(cs) ==
    [q \in Callers |-> IF cs[q].pc = "idle" THEN cs[q]
                       ELSE [cs[q] EXCEPT !.clean = FALSE]]

\* what the call that completed just before `rec` was, when on the same pair
Follow(rec) ==
    IF /\ lastCall.sessionId = rec.sessionId
       /\ lastCall.integrationName = rec.integrationName
    THEN [rec EXCEPT !.afterOp = lastCall.op,
                     !.afterClean = lastCall.clean,
                     !.afterTs = lastCall.ts,
                     !.afterRowsBefore = lastCall.rowsBefore]
    ELSE [rec EXCEPT !.afterOp = "other"]

\* connectIntegration, up to the result of its SELECT
ConnectSelect(p, sid, integrationName) ==
    /\ calls[p].pc = "idle"
    /\ budget > 0
    /\ budget' = budget - 1
    /\ LET existing == getIntegrationConnection(integrationTable, sid,
                                                integrationName)
       IN  calls' = [Overlapped(calls) EXCEPT ![p] =
                [pc |-> "selected", sessionId |-> sid,
                 integrationName |-> integrationName,
                 existing |-> existing # <<>>,
                 clean |-> ~OthersInFlight(p),
                 rowsBefore |-> Len(RowsOf(integrationTable, sid,
                                           integrationName))]]
    /\ UNCHANGED <<now, storeVars, integrationTable, lastWrite, lastCall, faults, res, agentVars>>

\* connectIntegration, from the branch on `existing` to its return
ConnectWrite(p) ==
    /\ calls[p].pc = "selected"
    /\ LET c == calls[p]
           t == connectIntegrationWrite(integrationTable, c.existing, c.sessionId,
                                        c.integrationName, "api", now)
       IN  /\ integrationTable' = t
           /\ lastWrite' = [lastWrite EXCEPT ![<<c.sessionId, c.integrationName>>]
                                = "connected"]
           /\ lastCall' = Follow(
                  [NoLastCall EXCEPT !.op = "connect",
                                     !.sessionId = c.sessionId,
                                     !.integrationName = c.integrationName,
                                     !.ts = now,
                                     !.clean = c.clean,
                                     !.inserted = Len(t) > Len(integrationTable),
                                     !.rowsBefore = c.rowsBefore,
                                     !.result = IF c.existing
                                                THEN RowsOf(t, c.sessionId,
                                                            c.integrationName)
                                                ELSE <<t[Len(t)]>>])
    /\ calls' = [calls EXCEPT ![p] = NoCall]
    /\ UNCHANGED <<now, storeVars, budget, faults, res, agentVars>>

\* disconnectIntegration
Disconnect(p, sid, integrationName) ==
    /\ calls[p].pc = "idle"
    /\ budget > 0
    /\ budget' = budget - 1
    /\ LET t == disconnectIntegration(integrationTable, sid,
                                      integrationName, now)
       IN  /\ integrationTable' = t
           /\ lastCall' = Follow(
                  [NoLastCall EXCEPT !.op = "disconnect",
                                     !.sessionId = sid,
                                     !.integrationName = integrationName,
                                     !.ts = now,
                                     !.clean = ~OthersInFlight(p),
                                     !.inserted = Len(t) > Len(integrationTable),
                                     !.rowsBefore = Len(RowsOf(integrationTable,
                                                     sid, integrationName)),
                                     !.result = RowsOf(t, sid,
                                                       integrationName)])
    /\ lastWrite' = [lastWrite EXCEPT ![<<sid, integrationName>>]
                         = "disconnected"]
    /\ calls' = Overlapped(calls)
    /\ UNCHANGED <<now, storeVars, faults, res, agentVars>>

Tick ==
    /\ now < MaxClock
    /\ now' = now + 1
    /\ UNCHANGED <<storeVars, registryVars, faults, res, agentVars>>

InitCommon ==
    /\ now = 0
    /\ integrationTable = <<>>
    /\ calls = [p \in Callers |-> NoCall]
    /\ lastWrite = [pr \in Pairs |-> "none"]
    /\ lastCall = NoLastCall
    /\ res = NoRes
    /\ sessionId = ""
    /\ messages = <<>>
    /\ conns = {}
    /\ opened = {}
    /\ turn = NoTurn
    /\ nextContent = 1
    /\ messagesTable = <<>>
    /\ sessionsTable = <<>>
    /\ gate = NoGate
    /\ lastClose = NoClose
    /\ retry = NoRetry
    /\ promptsTable = <<>>
    /\ closing = NoClosing
    /\ toolExecutionsTable = <<>>
    /\ tx = NoTx
    /\ sessionCall = NoSessionCall
    /\ http = NoHttp

\* the registry alone: no agent instance takes part
NoAgent ==
    /\ agentType = "campaign-agent"
    /\ dbManager = "null"
    /\ sockets = NoSockets
    /\ dbOps = FALSE
    /\ connEnded = FALSE
    /\ turnBudget = 0

Init ==
    /\ InitCommon
    /\ NoAgent
    /\ budget = MaxCalls
    /\ faults = 0

RegistryNext ==
    \/ \E p \in Callers, s \in SessionIds, x \in IntegrationNames :
           ConnectSelect(p, s, x)
    \/ \E p \in Callers : ConnectWrite(p)
    \/ \E p \in Callers, s \in SessionIds, x \in IntegrationNames :
           Disconnect(p, s, x)
    \/ Tick

SpecRegistry == Init /\ [][RegistryNext]_vars

\* One caller only connects while the other only disconnects.
ConnDiscNext ==
    \/ \E s \in SessionIds, x \in IntegrationNames : ConnectSelect("a", s, x)
    \/ ConnectWrite("a")
    \/ \E s \in SessionIds, x \in IntegrationNames : Disconnect("b", s, x)
    \/ Tick

SpecConnDisc == Init /\ [][ConnDiscNext]_vars

(***************************************************************************)
(* getToolsForAgent: one step per candidate integration, each with its own  *)
(* registry query.                                                          *)
(***************************************************************************)
\* a resolver that starts from the tool set of the previous turn
ResolveBeginCached(caller, type, sid, handle) ==
    res' = [NoRes EXCEPT !.pc = IF type \in DOMAIN agentToolMappings
                                THEN "loop" ELSE "threw",
                         !.caller = caller,
                         !.agentType = type,
                         !.sessionId = sid,
                         !.dbOps = handle,
                         !.idx = 1,
                         !.tools = turn.handed]

\* entry: agentToolMappings[agentType]; iterating an unmapped type throws
ResolveBegin(caller, type, sid, handle) ==
    res' = [NoRes EXCEPT !.pc = IF type \in DOMAIN agentToolMappings
                                THEN "loop" ELSE "threw",
                         !.caller = caller,
                         !.agentType = type,
                         !.sessionId = sid,
                         !.dbOps = handle,
                         !.idx = 1]

\* one iteration of the loop over the candidates; `fails` is whether the
\* registry query of this iteration throws
ResolveCandidate(fails) ==
    /\ res.pc = "loop"
    /\ LET x == agentToolMappings[res.agentType][res.idx]
           context == res.sessionId # "" /\ res.dbOps
           isConnected ==
               IF context /\ ~fails
               THEN isConnectedIn(getSessionIntegrations(integrationTable,
                                                         res.sessionId), x)
               ELSE DefaultWhenUnknown
           observed ==
               IF ~context THEN "nocontext"
               ELSE IF fails THEN "threw"
               ELSE IF \E i \in 1..Len(integrationTable) :
                          /\ integrationTable[i].sessionId = res.sessionId
                          /\ integrationTable[i].integrationName = x
                          /\ integrationTable[i].status = "connected"
                    THEN "connected" ELSE "absent"
       IN  res' = [res EXCEPT
                     !.tools = IF isConnected
                               THEN res.tools \cup getToolsByIntegration(x)
                               ELSE res.tools,
                     !.seen[x] = observed,
                     !.idx = res.idx + 1,
                     !.pc = IF res.idx = Len(agentToolMappings[res.agentType])
                            THEN "done" ELSE "loop"]

\* a direct call of the resolver with inputs of the caller's choosing
DirectResolveBegin(type, sid, handle) ==
    /\ res.pc = "idle"
    /\ ResolveBegin("direct", type, sid, handle)
    /\ UNCHANGED <<now, storeVars, registryVars, faults, agentVars>>

DirectResolveStep ==
    /\ res.caller = "direct"
    /\ \/ ResolveCandidate(FALSE) /\ UNCHANGED faults
       \/ /\ faults > 0
          /\ res.sessionId # "" /\ res.dbOps
          /\ ResolveCandidate(TRUE)
          /\ faults' = faults - 1
    /\ UNCHANGED <<now, storeVars, registryVars, agentVars>>

InitResolver ==
    /\ InitCommon
    /\ NoAgent
    /\ budget = MaxResolverCalls
    /\ faults = MaxFaults

ResolverNext ==
    \/ \E p \in Callers, x \in IntegrationNames :
           ConnectSelect(p, CampaignSessionId, x)
    \/ \E p \in Callers : ConnectWrite(p)
    \/ \E p \in Callers, x \in IntegrationNames :
           Disconnect(p, CampaignSessionId, x)
    \/ \E a \in AgentTypes, s \in {"", CampaignSessionId}, d \in BOOLEAN :
           DirectResolveBegin(a, s, d)
    \/ DirectResolveStep

SpecResolver == InitResolver /\ [][ResolverNext]_vars

(***************************************************************************)
(* The agent's handlers.  One request is handled at a time: a connect or a  *)
(* close begins only when no chat turn is in progress.  A chat turn is      *)
(* several steps, because the registry may be written between the queries   *)
(* of its resolution.                                                       *)
(***************************************************************************)
\* constructor: the storage connection is acquired, or the instance starts
\* without storage
Construct(type, acquired) ==
    /\ agentType = type
    /\ dbManager = IF acquired THEN getDb("noconn").manager ELSE "null"
    /\ sockets = [NoSockets EXCEPT
                    !.created = IF acquired THEN getDb("noconn").created ELSE 0,
                    !.current = IF acquired THEN getDb("noconn").created ELSE 0,
                    !.returned = IF acquired THEN getDb("noconn").created ELSE 0]
    /\ dbOps = acquired
    /\ connEnded = FALSE

\* the next physical connection to open
NextConnection ==
    IF "c1" \notin opened THEN "c1" ELSE "c2"

\* onConnect: set the session id, upsert the session, restore the transcript
OnConnect(c) ==
    /\ turn.pc = "idle"
    /\ c \notin opened
    /\ c = NextConnection
    /\ opened' = opened \cup {c}
    /\ conns' = conns \cup {c}
    /\ sessionId' = PersistentSessionId(agentType)
    /\ IF StorageUp
       THEN /\ sessionsTable' = createSession(sessionsTable,
                    [id |-> PersistentSessionId(agentType),
                     agentType |-> agentType,
                     agentName |-> PersistentSessionId(agentType),
                     metadata |-> <<"connected", c, now>>], now)
            /\ messages' = restoreConversationHistory(messages,
                    getAgentMessages(messagesTable, agentType, RestoreLimit))
       ELSE UNCHANGED <<sessionsTable, messages>>
    /\ UNCHANGED <<now, storeVars, registryVars, faults, res, agentType, sockets, dbManager, dbOps,
                   connEnded, turn, turnBudget, nextContent, messagesTable,
                   gate, lastClose>>

\* onClose: flush the whole transcript, then release the storage connection
OnClose(c) ==
    /\ turn.pc = "idle"
    /\ c \in conns
    /\ conns' = conns \ {c}
    /\ LET flushes == dbOps /\ sessionId # "" /\ Len(messages) > 0
           t == IF flushes /\ StorageUp
                THEN flushOnClose(messagesTable, messages, agentType,
                                  sessionId, now)
                ELSE messagesTable
       IN  /\ messagesTable' = t
           /\ lastClose' = [count |-> lastClose.count + 1,
                            up |-> StorageUp,
                            len |-> Len(messages),
                            wrote |-> Len(t) - Len(messagesTable),
                            appended |-> IF lastClose.count = 0
                                         THEN nextContent - 1
                                         ELSE lastClose.appended]
    /\ dbManager' = IF dbManager = "null" THEN "null"
                    ELSE close(dbManager).manager
    /\ sockets' = IF dbManager = "null" THEN sockets
                  ELSE Released(sockets, close(dbManager))
    /\ connEnded' = (connEnded \/ (dbManager # "null"
                                     /\ close(dbManager).ended = 1))
    /\ UNCHANGED <<now, storeVars, registryVars, faults, res, agentType, dbOps, sessionId,
                   messages, opened, turn, turnBudget, nextContent,
                   sessionsTable, gate>>

\* a threshold-gated saveMessage of a live turn, and the record of the gate
GatedSave(kind, applies, data) ==
    LET t == IF applies /\ StorageUp
             THEN saveMessage(messagesTable, data, now)
             ELSE messagesTable
    IN  <<t, [kind |-> kind, up |-> StorageUp,
              wrote |-> Len(t) - Len(messagesTable)]>>

\* onChatMessage up to the call of getToolsForAgent: the inbound user message
\* is the last of the transcript; it is saved under the gate
ChatBegin(c) ==
    /\ turn.pc = "idle"
    /\ c \in conns
    /\ turnBudget > 0
    /\ turnBudget' = turnBudget - 1
    /\ nextContent' = nextContent + 1
    /\ LET ms == Append(messages, [role |-> "user", content |-> nextContent])
           userMessage == ms[Len(ms)]
           g == GatedSave("user",
                    /\ dbOps
                    /\ sessionId # ""
                    /\ userMessage.role = "user"
                    /\ OverThreshold(Len(ms)),
                    [agentType |-> agentType, sessionId |-> sessionId,
                     role |-> "user", content |-> userMessage.content,
                     metadata |-> "live"])
       IN  /\ messages' = ms
           /\ messagesTable' = g[1]
           /\ gate' = [kind |-> g[2].kind, len |-> Len(ms), up |-> g[2].up,
                       wrote |-> g[2].wrote]
    /\ turn' = [pc |-> "resolving",
                budgetAtStart |-> budget,
                idleAtStart |-> \A p \in Callers : calls[p].pc = "idle",
                handed |-> turn.handed, count |-> turn.count + 1,
                error |-> "none"]
    /\ ResolveBegin("agent", agentType, sessionId, dbOps)
    /\ UNCHANGED <<now, storeVars, registryVars, faults, agentType, sockets, dbManager, dbOps,
                   connEnded, sessionId, conns, opened, sessionsTable,
                   lastClose>>

\* one registry query of the turn's resolution
ChatResolve ==
    /\ turn.pc = "resolving"
    /\ res.caller = "agent"
    /\ ResolveCandidate(connEnded)
    /\ UNCHANGED <<now, storeVars, registryVars, faults, agentVars>>

\* the catch block of onChatMessage: an error record under the gate, then the
\* error is rethrown
CatchBlock(error) ==
    LET applies == dbOps /\ sessionId # "" /\ OverThreshold(Len(messages))
        g == GatedSave("error", applies,
                 [agentType |-> agentType, sessionId |-> sessionId,
                  role |-> "system", content |-> 0, metadata |-> "error"])
    IN  /\ messagesTable' = g[1]
        /\ gate' = [kind |-> g[2].kind, len |-> Len(messages), up |-> g[2].up,
                    wrote |-> g[2].wrote]
        /\ turn' = [turn EXCEPT
                      !.pc = "idle",
                      !.error = Rethrown(error, applies /\ g[2].wrote = 0)]
        /\ res' = NoRes
        /\ UNCHANGED <<now, storeVars, registryVars, faults, agentType, sockets, dbManager, dbOps,
                       connEnded, sessionId, messages, conns, opened,
                       turnBudget, nextContent, sessionsTable, lastClose>>

\* getToolsForAgent threw
ChatResolveThrew ==
    /\ turn.pc = "resolving"
    /\ res.pc = "threw"
    /\ CatchBlock("TypeError")

\* streamText threw
ChatGenerateThrew ==
    /\ turn.pc = "resolving"
    /\ res.pc = "done"
    /\ CatchBlock("generation")

\* generation completed: onFinish saves the reply under the gate and refreshes
\* the session metadata, then the reply joins the transcript
ChatFinish ==
    /\ turn.pc = "resolving"
    /\ res.pc = "done"
    /\ LET applies == dbOps /\ sessionId # "" /\ OverThreshold(Len(messages))
           g == GatedSave("assistant", applies,
                    [agentType |-> agentType, sessionId |-> sessionId,
                     role |-> "assistant", content |-> nextContent,
                     metadata |-> "live"])
       IN  /\ messagesTable' = g[1]
           /\ gate' = [kind |-> g[2].kind, len |-> Len(messages),
                       up |-> g[2].up, wrote |-> g[2].wrote]
           /\ sessionsTable' =
                 IF applies /\ StorageUp
                 THEN updateSessionMetadata(sessionsTable, sessionId,
                          <<"activity", now,
                            Len(getSessionMessages(g[1], sessionId))>>, now)
                 ELSE sessionsTable
    /\ messages' = Append(messages, [role |-> "assistant", content |-> nextContent])
    /\ nextContent' = nextContent + 1
    /\ turn' = [turn EXCEPT !.pc = "idle", !.handed = res.tools]
    /\ res' = NoRes
    /\ UNCHANGED <<now, storeVars, registryVars, faults, agentType, sockets, dbManager, dbOps,
                   connEnded, sessionId, conns, opened, turnBudget, lastClose>>

InitAgent ==
    /\ InitCommon
    /\ \E type \in AgentClasses, acquired \in BOOLEAN : Construct(type, acquired)
    /\ turnBudget = MaxTurns
    /\ budget = 0
    /\ faults = 0

AgentNext ==
    \/ \E c \in {"c1", "c2"} : OnConnect(c)
    \/ \E c \in {"c1", "c2"} : OnClose(c)
    \/ \E c \in {"c1", "c2"} : ChatBegin(c)
    \/ ChatResolve
    \/ ChatResolveThrew
    \/ ChatGenerateThrew
    \/ ChatFinish
    \/ Tick

SpecAgent == InitAgent /\ [][AgentNext]_vars

\* The agent's chat turns while one caller writes the registry of its session.
\* The resolver reads no timestamp, so the clock stands still here.
InitTurn ==
    /\ InitCommon
    /\ \E type \in AgentClasses, acquired \in BOOLEAN : Construct(type, acquired)
    /\ turnBudget = MaxResolvedTurns
    /\ budget = MaxTurnCalls
    /\ faults = 0

TurnNext ==
    \/ \E c \in {"c1", "c2"} : OnConnect(c)
    \/ \E c \in {"c1", "c2"} : OnClose(c)
    \/ \E c \in {"c1", "c2"} : ChatBegin(c)
    \/ ChatResolve
    \/ ChatResolveThrew
    \/ ChatGenerateThrew
    \/ ChatFinish
    \/ \E x \in IntegrationNames :
           ConnectSelect("a", PersistentSessionId(agentType), x)
    \/ ConnectWrite("a")
    \/ \E x \in IntegrationNames :
           Disconnect("a", PersistentSessionId(agentType), x)

SpecTurn == InitTurn /\ [][TurnNext]_vars

(***************************************************************************)
(* A retry-wrapped call, one step per attempt and one per delay.  Whether   *)
(* an attempt succeeds, and the class of its error, is the environment's.   *)
(***************************************************************************)
\* entry of the call: for (let attempt = 1; ...)
RetryCall(op, arg) ==
    /\ retry.pc \in {"idle", "returned", "threw"}
    /\ retry.count < MaxRetryCalls
    /\ retry' = [NoRetry EXCEPT !.op = op, !.arg = arg, !.pc = "attempt",
                                !.attempt = 1, !.count = retry.count + 1]
    /\ UNCHANGED <<now, promptsTable, closing, sessionVars, http, registryVars, faults, res, agentVars>>

\* the statement of a successful attempt: its effect on the tables and the
\* rows it returns
RetryEffect(op, arg) ==
    IF op = "createSession"
    THEN LET t == createSession(sessionsTable,
                      [id |-> arg, agentType |-> arg, agentName |-> arg,
                       metadata |-> <<"connected", "c1", now>>], now)
         IN  [sessions |-> t, prompts |-> promptsTable,
              value |-> SelectSeq(t, LAMBDA r : r.id = arg)]
    ELSE IF op = "createOrUpdatePrompt"
    THEN LET t == createOrUpdatePrompt(promptsTable,
                      [agentType |-> arg, prompt |-> now], now)
         IN  [sessions |-> sessionsTable, prompts |-> t,
              value |-> getPromptByAgentType(t, arg)]
    ELSE [sessions |-> sessionsTable, prompts |-> promptsTable,
          value |-> IF op = "getAgentMessages"
                    THEN getAgentMessages(messagesTable, arg, RestoreLimit)
                    ELSE IF op = "getPromptByAgentType"
                    THEN getPromptByAgentType(promptsTable, arg)
                    ELSE getAllPrompts(promptsTable)]

\* one pass of the loop body: the try block, and the catch block when the
\* statement throws an error of class `class` ("ok": it does not throw)
RetryAttempt(class) ==
    /\ retry.pc = "attempt"
    /\ IF retry.attempt > maxRetries
       THEN /\ retry' = [retry EXCEPT !.pc = "returned",
                                      !.result = AfterLoop(retry.op)]
            /\ UNCHANGED <<sessionsTable, promptsTable>>
       ELSE IF class = "ok"
       THEN LET e == RetryEffect(retry.op, retry.arg)
            IN  /\ sessionsTable' = e.sessions
                /\ promptsTable' = e.prompts
                /\ retry' = [retry EXCEPT
                       !.pc = "returned",
                       !.attempts = retry.attempts + 1,
                       !.value = e.value,
                       !.result = IF retry.op \in ListReadOps THEN "rows"
                                  ELSE IF e.value = <<>> THEN "null"
                                  ELSE "row"]
       ELSE LET next == retryAfterError(retry.op, retry.attempt, class)
            IN  /\ retry' = [retry EXCEPT
                       !.pc = IF next = "delay" THEN "delay"
                              ELSE IF next = "threw" THEN "threw"
                              ELSE "returned",
                       !.attempts = retry.attempts + 1,
                       !.errors = Append(retry.errors, class),
                       !.result = IF next = "delay" THEN "none" ELSE next]
                /\ UNCHANGED <<sessionsTable, promptsTable>>
    /\ UNCHANGED <<now, closing, sessionVars, http, registryVars, faults, res, agentType, sockets, dbManager, dbOps,
                   connEnded, sessionId, messages, conns, opened, turn,
                   turnBudget, nextContent, messagesTable, gate, lastClose>>

\* setTimeout(resolve, 100 * attempt); continue
RetryDelay ==
    /\ retry.pc = "delay"
    /\ retry' = [retry EXCEPT !.pc = "attempt",
                              !.delays = retry.delays + 1,
                              !.waited = retry.waited + 100 * retry.attempt,
                              !.attempt = retry.attempt + 1]
    /\ UNCHANGED <<now, promptsTable, closing, sessionVars, http, registryVars, faults, res, agentVars>>

InitRetry ==
    /\ InitCommon
    /\ NoAgent
    /\ budget = 0
    /\ faults = 0

RetryNext ==
    \/ \E op \in RetryOps, arg \in AgentClasses : RetryCall(op, arg)
    \/ \E class \in ErrorClasses \cup {"ok"} : RetryAttempt(class)
    \/ RetryDelay
    \/ Tick

SpecRetry == InitRetry /\ [][RetryNext]_vars

(***************************************************************************)
(* Saving messages one after the other, each at a later instant, and        *)
(* restoring a role's transcript from them with a limit of the caller's.    *)
(***************************************************************************)
\* saveMessage of one message of a role; the clock has advanced when the next
\* one is saved
SaveInOrder(type, role) ==
    /\ Len(messagesTable) < MaxStored
    /\ messagesTable' = saveMessage(messagesTable,
           [agentType |-> type, sessionId |-> PersistentSessionId(type),
            role |-> role, content |-> nextContent, metadata |-> "live"], now)
    /\ nextContent' = nextContent + 1
    /\ now' = now + 1
    /\ UNCHANGED <<storeVars, registryVars, faults, res, agentType, sockets, dbManager,
                   dbOps, connEnded, sessionId, messages, conns, opened, turn,
                   turnBudget, sessionsTable, gate, lastClose>>

\* restoreConversationHistory of an instance of a role, reading with `limit`
RestoreWithLimit(type, limit) ==
    /\ messages' = restoreConversationHistory(messages,
           getAgentMessages(messagesTable, type, limit))
    /\ UNCHANGED <<now, storeVars, registryVars, faults, res, agentType, sockets,
                   dbManager, dbOps, connEnded, sessionId, conns, opened, turn,
                   turnBudget, nextContent, messagesTable, sessionsTable, gate,
                   lastClose>>

Limits == (1..MaxLimit) \cup {RestoreLimit}

InitRoundTrip ==
    /\ InitCommon
    /\ NoAgent
    /\ budget = 0
    /\ faults = 0

RoundTripNext ==
    \/ \E type \in AgentClasses, role \in {"user", "assistant"} :
           SaveInOrder(type, role)
    \/ \E type \in AgentClasses, limit \in Limits : RestoreWithLimit(type, limit)

SpecRoundTrip == InitRoundTrip /\ [][RoundTripNext]_vars

(***************************************************************************)
(* A DatabaseManager called by its owner: getDb and close in any order.     *)
(***************************************************************************)
ManagerGetDb ==
    /\ budget > 0
    /\ budget' = budget - 1
    /\ dbManager' = getDb(dbManager).manager
    /\ sockets' = Acquired(sockets, getDb(dbManager))
    /\ UNCHANGED <<now, storeVars, integrationTable, calls, lastWrite, lastCall,
                   faults, res, agentType, dbOps, connEnded, sessionId,
                   messages, conns, opened, turn, turnBudget, nextContent,
                   messagesTable, sessionsTable, gate, lastClose>>

ManagerClose ==
    /\ budget > 0
    /\ budget' = budget - 1
    /\ dbManager' = close(dbManager).manager
    /\ sockets' = Released(sockets, close(dbManager))
    /\ UNCHANGED <<now, storeVars, integrationTable, calls, lastWrite, lastCall,
                   faults, res, agentType, dbOps, connEnded, sessionId,
                   messages, conns, opened, turn, turnBudget, nextContent,
                   messagesTable, sessionsTable, gate, lastClose>>

\* new DatabaseManager(connectionString): no connection yet
InitDbManager ==
    /\ InitCommon
    /\ agentType \in AgentClasses
    /\ dbManager = "noconn"
    /\ sockets = NoSockets
    /\ dbOps = FALSE
    /\ connEnded = FALSE
    /\ turnBudget = 0
    /\ budget = MaxManagerCalls
    /\ faults = 0

DbManagerNext == ManagerGetDb \/ ManagerClose

SpecDbManager == InitDbManager /\ [][DbManagerNext]_vars

(***************************************************************************)
(* onClose statement by statement: the condition of the flush, each         *)
(* saveMessage of the loop from its call to its settling, and the release   *)
(* of the connection.  One request is handled at a time.                    *)
(***************************************************************************)
\* entry of onClose and `if (this.dbOps && this.sessionId && length > 0)`
OnCloseBegin(c) ==
    /\ closing.pc = "idle"
    /\ c \in conns
    /\ conns' = conns \ {c}
    /\ closing' = [NoClosing EXCEPT
                     !.pc = IF dbOps /\ sessionId # "" /\ Len(messages) > 0
                            THEN "loop" ELSE "release",
                     !.idx = 1]
    /\ UNCHANGED <<now, retry, promptsTable, sessionVars, http, registryVars, faults, res,
                   agentType, sockets, dbManager, dbOps, connEnded, sessionId,
                   messages, opened, turn, turnBudget, nextContent,
                   messagesTable, sessionsTable, gate, lastClose>>

\* the loop calls saveMessage for the next message of the transcript
OnCloseSaveIssue ==
    /\ closing.pc = "loop"
    /\ closing.idx <= Len(messages)
    /\ Awaited(closing.inflight)
    /\ closing' = [closing EXCEPT !.inflight = closing.inflight \cup {closing.idx},
                                  !.idx = closing.idx + 1]
    /\ UNCHANGED <<now, retry, promptsTable, sessionVars, http, registryVars, faults, res,
                   agentVars>>

\* a saveMessage of the loop settles: its row is written, or its INSERT fails
\* and it returns null
OnCloseSaveSettle(i, ok) ==
    /\ i \in closing.inflight
    /\ IF ok
       THEN /\ ~connEnded
            /\ messagesTable' = saveMessage(messagesTable,
                   [agentType |-> agentType, sessionId |-> sessionId,
                    role |-> messages[i].role, content |-> messages[i].content,
                    metadata |-> "savedOnClose"], now)
            /\ UNCHANGED faults
       ELSE /\ connEnded \/ faults > 0
            /\ faults' = IF connEnded THEN faults ELSE faults - 1
            /\ UNCHANGED messagesTable
    /\ closing' = [closing EXCEPT
                     !.inflight = closing.inflight \ {i},
                     !.wrote = closing.wrote + (IF ok THEN 1 ELSE 0),
                     !.failed = closing.failed + (IF ok THEN 0 ELSE 1)]
    /\ UNCHANGED <<now, retry, promptsTable, sessionVars, http, registryVars, res, agentType,
                   sockets, dbManager, dbOps, connEnded, sessionId, messages,
                   conns, opened, turn, turnBudget, nextContent, sessionsTable,
                   gate, lastClose>>

\* the loop is over
OnCloseLoopExit ==
    /\ closing.pc = "loop"
    /\ closing.idx > Len(messages)
    /\ Awaited(closing.inflight)
    /\ closing' = [closing EXCEPT !.pc = "release"]
    /\ UNCHANGED <<now, retry, promptsTable, sessionVars, http, registryVars, faults, res,
                   agentVars>>

\* `if (this.dbManager) await this.dbManager.close()`, and the return
OnCloseRelease ==
    /\ closing.pc = "release"
    /\ dbManager' = IF dbManager = "null" THEN "null"
                    ELSE close(dbManager).manager
    /\ sockets' = IF dbManager = "null" THEN sockets
                  ELSE Released(sockets, close(dbManager))
    /\ connEnded' = (connEnded \/ (dbManager # "null"
                                     /\ close(dbManager).ended = 1))
    /\ closing' = [closing EXCEPT
                     !.pc = "idle",
                     !.pendingAtRelease = Cardinality(closing.inflight),
                     !.released = (dbManager # "null")]
    /\ lastClose' = [count |-> lastClose.count + 1,
                     up |-> StorageUp,
                     len |-> Len(messages),
                     wrote |-> closing.wrote,
                     appended |-> lastClose.appended]
    /\ UNCHANGED <<now, retry, promptsTable, sessionVars, http, registryVars, faults, res,
                   agentType, dbOps, sessionId, messages, conns, opened, turn,
                   turnBudget, nextContent, messagesTable, sessionsTable,
                   gate>>

\* a transcript of n messages of a live instance: turns of user and assistant
TranscriptOf(n) ==
    [i \in 1..n |-> [role |-> IF i % 2 = 1 THEN "user" ELSE "assistant",
                     content |-> i]]

\* an instance with two physical connections open and a transcript in memory
InitClose ==
    /\ now = 0
    /\ integrationTable = <<>>
    /\ calls = [p \in Callers |-> NoCall]
    /\ lastWrite = [pr \in Pairs |-> "none"]
    /\ lastCall = NoLastCall
    /\ res = NoRes
    /\ \E type \in AgentClasses, acquired \in BOOLEAN : Construct(type, acquired)
    /\ sessionId = PersistentSessionId(agentType)
    /\ \E n \in 0..MaxTranscript :
           /\ messages = TranscriptOf(n)
           /\ nextContent = n + 1
    /\ conns = {"c1", "c2"}
    /\ opened = {"c1", "c2"}
    /\ turn = NoTurn
    /\ turnBudget = 0
    /\ messagesTable = <<>>
    /\ sessionsTable = <<>>
    /\ gate = NoGate
    /\ lastClose = NoClose
    /\ retry = NoRetry
    /\ promptsTable = <<>>
    /\ closing = NoClosing
    /\ toolExecutionsTable = <<>>
    /\ tx = NoTx
    /\ sessionCall = NoSessionCall
    /\ http = NoHttp
    /\ budget = 0
    /\ faults = MaxFaults

CloseNext ==
    \/ \E c \in {"c1", "c2"} : OnCloseBegin(c)
    \/ OnCloseSaveIssue
    \/ \E i \in 1..MaxTranscript, ok \in BOOLEAN : OnCloseSaveSettle(i, ok)
    \/ OnCloseLoopExit
    \/ OnCloseRelease

SpecClose == InitClose /\ [][CloseNext]_vars

(***************************************************************************)
(* The session operations of DbOperations called directly: createSession,   *)
(* findSession, updateSessionMetadata and deleteSession, with saveMessage   *)
(* and logToolExecution filling the tables.  deleteSession is one step per  *)
(* statement, so that other calls run while its transaction is open; rows   *)
(* of the session being deleted are written by no other call meanwhile.     *)
(***************************************************************************)
StoreSessionIds == {RouterSessionId, CampaignSessionId}

\* how many rows of a session each table holds
RowsOfSession(id) ==
    <<Len(SelectSeq(messagesTable, LAMBDA r : r.sessionId = id)),
      Len(SelectSeq(toolExecutionsTable, LAMBDA r : r.sessionId = id)),
      Len(SelectSeq(sessionsTable, LAMBDA r : r.id = id))>>

\* no open transaction is deleting the rows of this session
NotBeingDeleted(id) == tx.pc = "idle" \/ tx.id # id

\* what a call of createSession does when its first attempt ends as c1 and
\* its second, if the loop makes one, as c2
createSessionOutcome(c1, c2) ==
    IF c1 = "ok" THEN "ok"
    ELSE IF retryAfterError("createSession", 1, c1) # "delay"
    THEN retryAfterError("createSession", 1, c1)
    ELSE IF c2 = "ok" THEN "ok"
    ELSE IF retryAfterError("createSession", 2, c2) # "delay"
    THEN retryAfterError("createSession", 2, c2)
    ELSE AfterLoop("createSession")

CreateSessionCall(data, c1, c2) ==
    /\ budget > 0
    /\ budget' = budget - 1
    /\ NotBeingDeleted(data.id)
    /\ (c1 # "ok") => faults > 0
    /\ faults' = IF c1 = "ok" THEN faults ELSE faults - 1
    /\ LET outcome == createSessionOutcome(c1, c2)
       IN  /\ sessionsTable' = IF outcome = "ok"
                                THEN createSession(sessionsTable, data, now)
                                ELSE sessionsTable
           /\ sessionCall' = [op |-> "createSession", id |-> data.id,
                              result |-> IF outcome = "ok" THEN "row" ELSE outcome,
                              data |-> <<data>>]
    /\ UNCHANGED <<now, retry, promptsTable, closing, toolExecutionsTable, tx, http,
                   integrationTable, calls, lastWrite, lastCall, res,
                   agentType, sockets, dbManager, dbOps, connEnded, sessionId,
                   messages, conns, opened, turn, turnBudget, nextContent,
                   messagesTable, gate, lastClose>>

FindSessionCall(id, fails) ==
    /\ budget > 0
    /\ budget' = budget - 1
    /\ fails => faults > 0
    /\ faults' = IF fails THEN faults - 1 ELSE faults
    /\ sessionCall' = [op |-> "findSession", id |-> id,
                       result |-> IF fails THEN "threw"
                                  ELSE IF findSession(sessionsTable, id) = <<>>
                                  THEN "undefined" ELSE "row",
                       data |-> <<>>]
    /\ UNCHANGED <<now, retry, promptsTable, closing, toolExecutionsTable, tx, http,
                   integrationTable, calls, lastWrite, lastCall, res,
                   agentVars>>

UpdateSessionMetadataCall(id, metadata, fails) ==
    /\ budget > 0
    /\ budget' = budget - 1
    /\ NotBeingDeleted(id)
    /\ fails => faults > 0
    /\ faults' = IF fails THEN faults - 1 ELSE faults
    /\ sessionsTable' = IF fails THEN sessionsTable
                        ELSE updateSessionMetadata(sessionsTable, id,
                                                   metadata, now)
    /\ sessionCall' = [op |-> "updateSessionMetadata", id |-> id,
                       result |-> IF fails THEN "threw"
                                  ELSE IF findSession(sessionsTable, id) = <<>>
                                  THEN "undefined" ELSE "row",
                       data |-> <<metadata>>]
    /\ UNCHANGED <<now, retry, promptsTable, closing, toolExecutionsTable, tx, http,
                   integrationTable, calls, lastWrite, lastCall, res,
                   agentType, sockets, dbManager, dbOps, connEnded, sessionId,
                   messages, conns, opened, turn, turnBudget, nextContent,
                   messagesTable, gate, lastClose>>

\* saveMessage of a message of a session
StoreSaveMessage(id) ==
    /\ budget > 0
    /\ budget' = budget - 1
    /\ NotBeingDeleted(id)
    /\ messagesTable' = saveMessage(messagesTable,
           [agentType |-> "campaign-agent", sessionId |-> id, role |-> "user",
            content |-> nextContent, metadata |-> "live"], now)
    /\ nextContent' = nextContent + 1
    /\ UNCHANGED <<now, storeVars, integrationTable, calls, lastWrite,
                   lastCall, faults, res, agentType, sockets, dbManager, dbOps,
                   connEnded, sessionId, messages, conns, opened, turn,
                   turnBudget, sessionsTable, gate, lastClose>>

\* logToolExecution of a tool call of a session
StoreLogToolExecution(id) ==
    /\ budget > 0
    /\ budget' = budget - 1
    /\ NotBeingDeleted(id)
    /\ toolExecutionsTable' = logToolExecution(toolExecutionsTable,
           [sessionId |-> id, toolName |-> "getShopifyOrders",
            input |-> "in1", status |-> "pending"], now)
    /\ UNCHANGED <<now, retry, promptsTable, closing, tx, sessionCall, http,
                   integrationTable, calls, lastWrite, lastCall, faults, res,
                   agentVars>>

\* the tables once the statements in `which` have taken effect
AfterDeletes(which, id) ==
    [messages |-> IF "messages" \in which
                  THEN deleteWhereSessionId(messagesTable, id)
                  ELSE messagesTable,
     toolExecutions |-> IF "toolExecutions" \in which
                        THEN deleteWhereSessionId(toolExecutionsTable, id)
                        ELSE toolExecutionsTable,
     sessions |-> IF "sessions" \in which
                  THEN deleteWhereId(sessionsTable, id)
                  ELSE sessionsTable]

DeleteFrame ==
    UNCHANGED <<now, retry, promptsTable, closing, sessionCall, http,
                integrationTable, calls, lastWrite, lastCall, res,
                agentType, sockets, dbManager, dbOps, connEnded, sessionId,
                messages, conns, opened, turn, turnBudget, nextContent, gate,
                lastClose>>

\* deleteSession: the transaction opens
DeleteSessionBegin(id) ==
    /\ tx.pc = "idle"
    /\ budget > 0
    /\ budget' = budget - 1
    /\ tx' = [pc |-> "messages", id |-> id, done |-> {}, outcome |-> "none",
              before |-> RowsOfSession(id)]
    /\ UNCHANGED <<faults, messagesTable, toolExecutionsTable, sessionsTable>>
    /\ DeleteFrame

\* the next delete statement of the callback runs
DeleteSessionStatement ==
    /\ tx.pc \in {"messages", "toolExecutions", "sessions"}
    /\ LET t == AfterDeletes(transaction(tx.pc, tx.done \cup {tx.pc}, FALSE),
                             tx.id)
       IN  /\ messagesTable' = t.messages
           /\ toolExecutionsTable' = t.toolExecutions
           /\ sessionsTable' = t.sessions
    /\ tx' = [tx EXCEPT !.done = tx.done \cup {tx.pc},
                        !.pc = IF tx.pc = "messages" THEN "toolExecutions"
                               ELSE IF tx.pc = "toolExecutions" THEN "sessions"
                               ELSE "commit"]
    /\ UNCHANGED <<budget, faults>>
    /\ DeleteFrame

\* the callback has returned: the transaction commits
DeleteSessionCommit ==
    /\ tx.pc = "commit"
    /\ LET t == AfterDeletes(transaction("", tx.done, TRUE), tx.id)
       IN  /\ messagesTable' = t.messages
           /\ toolExecutionsTable' = t.toolExecutions
           /\ sessionsTable' = t.sessions
    /\ tx' = [tx EXCEPT !.pc = "idle", !.outcome = "committed"]
    /\ UNCHANGED <<budget, faults>>
    /\ DeleteFrame

\* a statement of the callback, or the commit, throws: deleteSession rejects
DeleteSessionFail ==
    /\ tx.pc \in {"messages", "toolExecutions", "sessions", "commit"}
    /\ faults > 0
    /\ faults' = faults - 1
    /\ tx' = [tx EXCEPT !.pc = "idle", !.outcome = "rolledback"]
    /\ UNCHANGED <<budget, messagesTable, toolExecutionsTable, sessionsTable>>
    /\ DeleteFrame

\* the records createSession is called with
SessionData ==
    {[id |-> id, agentType |-> d[1], agentName |-> d[2], metadata |-> m] :
        id \in StoreSessionIds,
        d \in {<<"router-agent", "router">>, <<"campaign-agent", "campaign">>},
        m \in {"m1", "m2"}}

InitSessionStore ==
    /\ InitCommon
    /\ NoAgent
    /\ budget = MaxStoreCalls
    /\ faults = MaxFaults

SessionStoreNext ==
    \/ \E data \in SessionData, c1 \in ErrorClasses \cup {"ok"},
          c2 \in {"ok", "CONNECTION_ENDED"} : CreateSessionCall(data, c1, c2)
    \/ \E id \in StoreSessionIds, fails \in BOOLEAN : FindSessionCall(id, fails)
    \/ \E id \in StoreSessionIds, fails \in BOOLEAN :
           UpdateSessionMetadataCall(id, "m3", fails)
    \/ Tick

SpecSessionStore == InitSessionStore /\ [][SessionStoreNext]_vars

\* deleteSession among the calls that fill the tables and read them
InitDeleteSession ==
    /\ InitCommon
    /\ NoAgent
    /\ budget = MaxDeleteCalls
    /\ faults = MaxFaults

DeleteSessionNext ==
    \/ \E id \in StoreSessionIds :
           CreateSessionCall([id |-> id, agentType |-> "campaign-agent",
                              agentName |-> "campaign", metadata |-> "m1"],
                             "ok", "ok")
    \/ \E id \in StoreSessionIds : StoreSaveMessage(id)
    \/ \E id \in StoreSessionIds : StoreLogToolExecution(id)
    \/ \E id \in StoreSessionIds : FindSessionCall(id, FALSE)
    \/ \E id \in StoreSessionIds : DeleteSessionBegin(id)
    \/ DeleteSessionStatement
    \/ DeleteSessionCommit
    \/ DeleteSessionFail

SpecDeleteSession == InitDeleteSession /\ [][DeleteSessionNext]_vars

(***************************************************************************)
(* The /api/integrations requests, one at a time.  Each handler makes its   *)
(* own DatabaseManager; `fails` is whether its registry call throws.  No    *)
(* response depends on a timestamp, so the clock stands still here.         *)
(***************************************************************************)
\* the last segment of the path: an integration, another name, or nothing
HttpNames == IntegrationNames \cup {"", "mailchimp", "constructor"}

\* sessionId of the query or of the x-session-id header; "": neither is given
HttpSessionIds == SessionIds \cup {""}

HttpFrame ==
    UNCHANGED <<now, retry, promptsTable, closing, sessionVars, calls,
                lastCall, res, agentVars>>

\* the write of a session's pair that a handler applied last
Written(sid, integrationName, status) ==
    IF <<sid, integrationName>> \in Pairs
    THEN [lastWrite EXCEPT ![<<sid, integrationName>>] = status]
    ELSE lastWrite

\* POST /api/integrations/{name}
HttpPost(integrationName, sid, fails) ==
    /\ budget > 0
    /\ budget' = budget - 1
    /\ IF integrationName = "" \/ ~integrationsLookup(integrationName)
       THEN /\ http' = [NoHttp EXCEPT !.method = "POST",
                          !.name = integrationName, !.sessionId = sid,
                          !.code = 404, !.status = "error"]
            /\ UNCHANGED <<integrationTable, lastWrite, faults>>
       ELSE IF sid = ""
       THEN /\ http' = [NoHttp EXCEPT !.method = "POST",
                          !.name = integrationName, !.sessionId = sid,
                          !.code = 400, !.status = "error"]
            /\ UNCHANGED <<integrationTable, lastWrite, faults>>
       ELSE IF fails
       THEN /\ faults > 0
            /\ faults' = faults - 1
            /\ http' = [NoHttp EXCEPT !.method = "POST",
                          !.name = integrationName, !.sessionId = sid,
                          !.code = 500, !.status = "error", !.call = "threw",
                          !.created = getDb("noconn").created]
            /\ UNCHANGED <<integrationTable, lastWrite>>
       ELSE /\ integrationTable' =
                  connectIntegrationWrite(integrationTable,
                      getIntegrationConnection(integrationTable, sid,
                                               integrationName) # <<>>,
                      sid, integrationName, "api", now)
            /\ lastWrite' = Written(sid, integrationName, "connected")
            /\ http' = [NoHttp EXCEPT !.method = "POST",
                          !.name = integrationName, !.sessionId = sid,
                          !.code = 200, !.status = "connected", !.call = "ok",
                          !.created = getDb("noconn").created,
                          !.ended = close(getDb("noconn").manager).ended]
            /\ UNCHANGED faults
    /\ HttpFrame

\* DELETE /api/integrations/{name}
HttpDelete(integrationName, sid, fails) ==
    /\ budget > 0
    /\ budget' = budget - 1
    /\ IF integrationName = "" \/ ~integrationsLookup(integrationName)
       THEN /\ http' = [NoHttp EXCEPT !.method = "DELETE",
                          !.name = integrationName, !.sessionId = sid,
                          !.code = 404, !.status = "error"]
            /\ UNCHANGED <<integrationTable, lastWrite, faults>>
       ELSE IF sid = ""
       THEN /\ http' = [NoHttp EXCEPT !.method = "DELETE",
                          !.name = integrationName, !.sessionId = sid,
                          !.code = 400, !.status = "error"]
            /\ UNCHANGED <<integrationTable, lastWrite, faults>>
       ELSE IF fails
       THEN /\ faults > 0
            /\ faults' = faults - 1
            /\ http' = [NoHttp EXCEPT !.method = "DELETE",
                          !.name = integrationName, !.sessionId = sid,
                          !.code = 500, !.status = "error", !.call = "threw",
                          !.created = getDb("noconn").created]
            /\ UNCHANGED <<integrationTable, lastWrite>>
       ELSE /\ integrationTable' = disconnectIntegration(integrationTable, sid,
                                                         integrationName, now)
            /\ lastWrite' = Written(sid, integrationName, "disconnected")
            /\ http' = [NoHttp EXCEPT !.method = "DELETE",
                          !.name = integrationName, !.sessionId = sid,
                          !.code = 200, !.status = "disconnected",
                          !.call = "ok",
                          !.created = getDb("noconn").created,
                          !.ended = close(getDb("noconn").manager).ended]
            /\ UNCHANGED faults
    /\ HttpFrame

\* GET /api/integrations
HttpGet(sid, fails) ==
    /\ budget > 0
    /\ budget' = budget - 1
    /\ IF sid = ""
       THEN /\ http' = [NoHttp EXCEPT !.method = "GET", !.sessionId = sid,
                          !.code = 200, !.status = "list",
                          !.connected = DefaultConnected]
            /\ UNCHANGED faults
       ELSE IF fails
       THEN /\ faults > 0
            /\ faults' = faults - 1
            /\ http' = [NoHttp EXCEPT !.method = "GET", !.sessionId = sid,
                          !.code = 200, !.status = "list",
                          !.connected = DefaultConnected, !.call = "threw",
                          !.created = getDb("noconn").created]
       ELSE /\ http' = [NoHttp EXCEPT !.method = "GET", !.sessionId = sid,
                          !.code = 200, !.status = "list",
                          !.connected =
                              {x \in DOMAIN integrations :
                                  x \in connectedIntegrations(
                                      getSessionIntegrations(integrationTable,
                                                             sid))},
                          !.call = "ok",
                          !.created = getDb("noconn").created,
                          !.ended = close(getDb("noconn").manager).ended]
            /\ UNCHANGED faults
    /\ UNCHANGED <<integrationTable, lastWrite>>
    /\ HttpFrame

InitHttp ==
    /\ InitCommon
    /\ NoAgent
    /\ budget = MaxHttpCalls
    /\ faults = MaxFaults

HttpNext ==
    \/ \E x \in HttpNames, s \in HttpSessionIds, fails \in BOOLEAN :
           HttpPost(x, s, fails)
    \/ \E x \in HttpNames, s \in HttpSessionIds, fails \in BOOLEAN :
           HttpDelete(x, s, fails)
    \/ \E s \in HttpSessionIds, fails \in BOOLEAN : HttpGet(s, fails)

SpecHttp == InitHttp /\ [][HttpNext]_vars

(***************************************************************************)
(* deleteSession of a session that has integration connections: the         *)
(* session is created, integrations are connected for it by uncontended     *)
(* calls of connectIntegration, and the session is deleted.                 *)
(***************************************************************************)
\* connectIntegration with no other registry call in flight: its SELECT and
\* its write
StoreConnectIntegration(id, integrationName) ==
    /\ budget > 0
    /\ budget' = budget - 1
    /\ NotBeingDeleted(id)
    /\ LET existing == getIntegrationConnection(integrationTable, id,
                                                integrationName)
       IN  integrationTable' =
               connectIntegrationWrite(integrationTable, existing # <<>>, id,
                                       integrationName, "api", now)
    /\ lastWrite' = [lastWrite EXCEPT ![<<id, integrationName>>] = "connected"]
    /\ UNCHANGED <<now, storeVars, calls, lastCall, faults, res, agentVars>>

CascadeNext ==
    \/ \E id \in SessionIds :
           CreateSessionCall([id |-> id, agentType |-> "campaign-agent",
                              agentName |-> "campaign", metadata |-> "m1"],
                             "ok", "ok")
    \/ \E id \in SessionIds, x \in IntegrationNames :
           StoreConnectIntegration(id, x)
    \/ \E id \in SessionIds : StoreSaveMessage(id)
    \/ \E id \in SessionIds : DeleteSessionBegin(id)
    \/ DeleteSessionStatement
    \/ DeleteSessionCommit
    \/ DeleteSessionFail

SpecCascade == InitDeleteSession /\ [][CascadeNext]_vars

(***************************************************************************)
(* The tool-execution log of an agent instance: logToolStart and            *)
(* logToolComplete are public methods of RouterAgent and CampaignAgent,     *)
(* called with the arguments their caller chooses.                          *)
(***************************************************************************)
\* logToolStart(toolName, input): a row with status "pending"; the id of the
\* row, or null (0, the id of no row) when the instance has no storage or no
\* session id, or the INSERT failed
LogToolStart(toolName, input, fails) ==
    /\ turnBudget > 0
    /\ turnBudget' = turnBudget - 1
    /\ LET skipped == ~dbOps \/ sessionId = ""
           t == IF skipped \/ fails \/ ~StorageUp
                THEN toolExecutionsTable
                ELSE logToolExecution(toolExecutionsTable,
                         [sessionId |-> sessionId, toolName |-> toolName,
                          input |-> input, status |-> "pending"], now)
       IN  /\ toolExecutionsTable' = t
           /\ sessionCall' = [op |-> "logToolStart", id |-> sessionId,
                              result |-> IF t = toolExecutionsTable
                                         THEN 0
                                         ELSE t[Len(t)].id,
                              data |-> <<toolName, input>>]
    /\ UNCHANGED <<now, retry, promptsTable, closing, tx, http, registryVars,
                   faults, res, agentType, sockets, dbManager, dbOps,
                   connEnded, sessionId, messages, conns, opened, turn,
                   nextContent, messagesTable, sessionsTable, gate,
                   lastClose>>

\* logToolComplete(executionId, output, status): the UPDATE of the row with
\* that id; an error of the UPDATE is caught and logged
LogToolComplete(executionId, output, status, fails) ==
    /\ turnBudget > 0
    /\ turnBudget' = turnBudget - 1
    /\ LET skipped == ~dbOps \/ executionId = 0
           applied == ~skipped /\ ~fails /\ StorageUp
       IN  /\ toolExecutionsTable' =
                 IF applied
                 THEN updateToolExecution(toolExecutionsTable, executionId,
                                          output, status)
                 ELSE toolExecutionsTable
           /\ sessionCall' = [op |-> "logToolComplete", id |-> sessionId,
                              result |-> IF skipped THEN "skipped"
                                         ELSE IF applied THEN "updated"
                                         ELSE "caught",
                              data |-> <<executionId, output, status>>]
    /\ UNCHANGED <<now, retry, promptsTable, closing, tx, http, registryVars,
                   faults, res, agentType, sockets, dbManager, dbOps,
                   connEnded, sessionId, messages, conns, opened, turn,
                   nextContent, messagesTable, sessionsTable, gate,
                   lastClose>>

InitToolLog ==
    /\ InitCommon
    /\ \E type \in AgentClasses, acquired \in BOOLEAN : Construct(type, acquired)
    /\ turnBudget = MaxToolCalls
    /\ budget = 0
    /\ faults = 0

ToolLogNext ==
    \/ \E c \in {"c1", "c2"} : OnConnect(c)
    \/ \E toolName \in {"getShopifyOrders", "getPostHogEvents"},
          fails \in BOOLEAN : LogToolStart(toolName, "in1", fails)
    \/ \E executionId \in 0..MaxToolCalls, output \in {"out1", "out2"},
          status \in {"success", "error"}, fails \in BOOLEAN :
           LogToolComplete(executionId, output, status, fails)

SpecToolLog == InitToolLog /\ [][ToolLogNext]_vars

(***************************************************************************)
(* The message operations of DbOperations called directly: saveMessage and  *)
(* deleteOldMessages, the clock counting days.  Whether the statement of a  *)
(* call fails, and with which error, is the environment's.                  *)
(***************************************************************************)
\* saveMessage of one message: one try block around the INSERT, with no
\* loop; its catch block returns null whatever the error.  The first attempt
\* ends as c1; c2, how a second attempt would end, plays no part
SaveMessageCall(type, c1, c2) ==
    /\ budget > 0
    /\ budget' = budget - 1
    /\ (c1 # "ok") => faults > 0
    /\ faults' = IF c1 = "ok" THEN faults ELSE faults - 1
    /\ LET outcome == IF c1 = "ok" THEN "ok" ELSE "null"
       IN  /\ messagesTable' =
                 IF outcome = "ok"
                 THEN saveMessage(messagesTable,
                          [agentType |-> type,
                           sessionId |-> PersistentSessionId(type),
                           role |-> "user", content |-> nextContent,
                           metadata |-> "live"], now)
                 ELSE messagesTable
           /\ sessionCall' = [op |-> "saveMessage",
                              id |-> PersistentSessionId(type),
                              result |-> IF outcome = "ok" THEN "row"
                                         ELSE outcome,
                              data |-> <<c1, c2, nextContent>>]
    /\ nextContent' = nextContent + 1
    /\ UNCHANGED <<now, retry, promptsTable, closing, toolExecutionsTable, tx,
                   http, integrationTable, calls, lastWrite, lastCall, res,
                   agentType, sockets, dbManager, dbOps, connEnded, sessionId,
                   messages, conns, opened, turn, turnBudget, sessionsTable,
                   gate, lastClose>>

\* deleteOldMessages(olderThanDays): one DELETE, awaited with no try block
DeleteOldMessagesCall(olderThanDays, fails) ==
    /\ budget > 0
    /\ budget' = budget - 1
    /\ fails => faults > 0
    /\ faults' = IF fails THEN faults - 1 ELSE faults
    /\ messagesTable' = IF fails THEN messagesTable
                        ELSE deleteOldMessages(messagesTable, olderThanDays,
                                               now)
    /\ sessionCall' = [op |-> "deleteOldMessages", id |-> "",
                       result |-> IF fails THEN "threw" ELSE "done",
                       data |-> <<olderThanDays, now - olderThanDays>>]
    /\ UNCHANGED nextContent
    /\ UNCHANGED <<now, retry, promptsTable, closing, toolExecutionsTable, tx,
                   http, integrationTable, calls, lastWrite, lastCall, res,
                   agentType, sockets, dbManager, dbOps, connEnded, sessionId,
                   messages, conns, opened, turn, turnBudget, sessionsTable,
                   gate, lastClose>>

InitMessageStore ==
    /\ InitCommon
    /\ NoAgent
    /\ budget = MaxMessageCalls
    /\ faults = MaxFaults

MessageStoreNext ==
    \/ \E type \in AgentClasses, c1 \in ErrorClasses \cup {"ok"},
          c2 \in ErrorClasses \cup {"ok"} : SaveMessageCall(type, c1, c2)
    \/ \E olderThanDays \in 0..MaxDays, fails \in BOOLEAN :
           DeleteOldMessagesCall(olderThanDays, fails)
    \/ Tick

SpecMessageStore == InitMessageStore /\ [][MessageStoreNext]_vars

(***************************************************************************)
(* Claims about the registry.                                               *)
(***************************************************************************)
PairRows(pr) == RowsOf(integrationTable, pr[1], pr[2])

LastPair == <<lastCall.sessionId, lastCall.integrationName>>

\* C1: after any interleaving of connect and disconnect calls the table holds
\* at most one row per (sessionId, integrationName) pair.
C1_AtMostOneRowPerPair ==
    \A pr \in Pairs : Len(PairRows(pr)) <= 1

\* the call that completed last is the second of two consecutive connect
\* calls on one pair, neither overlapped by any other registry call
TwoConsecutiveConnects ==
    /\ lastCall.op = "connect"
    /\ lastCall.clean
    /\ lastCall.afterOp = "connect"
    /\ lastCall.afterClean

C3_DisconnectUnknownIsNoOp ==
    [][(/\ budget' # budget
        /\ lastCall'.op = "disconnect"
        /\ RowsOf(integrationTable, lastCall'.sessionId,
                  lastCall'.integrationName) = <<>>)
       => /\ integrationTable' = integrationTable
          /\ lastCall'.result = <<>>]_vars

\* a disconnect of a pair without a row has completed while other pairs have rows
C3_Witness ==
    /\ lastCall.op = "disconnect"
    /\ lastCall.rowsBefore = 0
    /\ lastCall.result = <<>>
    /\ integrationTable # <<>>

Candidates(type) ==
    {agentToolMappings[type][i] : i \in 1..Len(agentToolMappings[type])}

\* C5: when the registry query succeeds, the tools of a candidate integration
\* are in the result if and only if the registry held a row of the session
\* and that integration with status connected; the finished result is the
\* union of the bundles of the candidates taken as connected and holds no
\* tool of a candidate seen without a connected row.
C5_ToolsIffConnected ==
    \A x \in IntegrationNames :
        /\ res.seen[x] = "connected" => getToolsByIntegration(x) \subseteq res.tools
        /\ res.seen[x] = "absent" => res.tools \cap integrations[x] = {}
        /\ res.pc = "done" =>
              res.tools = UNION {getToolsByIntegration(y) :
                                   y \in {z \in Candidates(res.agentType) :
                                            res.seen[z] # "absent"}}

\* a resolution for campaign-agent has finished with two integrations found
\* connected and the third found disconnected
C5_Witness ==
    /\ res.pc = "done"
    /\ res.agentType = "campaign-agent"
    /\ res.seen["google-ads"] = "connected"
    /\ res.seen["shopify"] = "connected"
    /\ res.seen["posthog"] = "absent"
    /\ \E i \in 1..Len(integrationTable) :
           /\ integrationTable[i].integrationName = "posthog"
           /\ integrationTable[i].status = "disconnected"
    /\ res.tools = getToolsByIntegration("google-ads")
                       \cup getToolsByIntegration("shopify")

\* C7: a candidate whose registry query threw, or that was resolved without a
\* session id or without a storage handle, is taken as connected: its tools
\* are in the result.
C7_DefaultOpen ==
    \A x \in IntegrationNames :
        res.seen[x] \in {"threw", "nocontext"} =>
            getToolsByIntegration(x) \subseteq res.tools

\* a resolution has finished in which one candidate's query threw although the
\* registry holds only a disconnected row for it
C7_Witness ==
    /\ res.pc = "done"
    /\ \E x \in IntegrationNames :
          /\ res.seen[x] = "threw"
          /\ getToolsByIntegration(x) \subseteq res.tools
          /\ Len(PairRows(<<res.sessionId, x>>)) = 1
          /\ PairRows(<<res.sessionId, x>>)[1].status = "disconnected"

\* a resolution without a session id has finished with every candidate's tools
C7_WitnessNoContext ==
    /\ res.pc = "done"
    /\ res.sessionId = ""
    /\ \A x \in Candidates(res.agentType) : res.seen[x] = "nocontext"

(***************************************************************************)
(* Claims about the agent.                                                  *)
(***************************************************************************)
\* no registry call was in flight when the turn began and none began since
QuietTurn == turn.idleAtStart /\ turn.budgetAtStart = budget

\* the bundles of the candidates that have a connected row in the registry now
ToolsOfRegistry(type, sid) ==
    UNION {getToolsByIntegration(x) :
             x \in {y \in Candidates(type) :
                      \E i \in 1..Len(integrationTable) :
                          /\ integrationTable[i].sessionId = sid
                          /\ integrationTable[i].integrationName = y
                          /\ integrationTable[i].status = "connected"}}

C8_Original ==
    gate.kind # "none" =>
        (gate.wrote = 1 <=> gate.len > MessageThreshold)

\* C8 as amended: a gated save of a live turn writes exactly one row when the
\* transcript is longer than 10 at that point and the instance's storage
\* takes the write, and no row otherwise; at length 10 or less it never
\* writes.
C8_ThresholdGate ==
    gate.kind # "none" =>
        gate.wrote = IF gate.len > MessageThreshold /\ gate.up THEN 1 ELSE 0

\* an assistant reply completed on a transcript longer than 10 and wrote its
\* one row, the table then holding the inbound user message and the reply
C8_Witness ==
    /\ gate.kind = "assistant"
    /\ gate.len = MessageThreshold + 1
    /\ gate.up
    /\ gate.wrote = 1
    /\ Len(messagesTable) = 2
    /\ messagesTable[1].role = "user"
    /\ messagesTable[2].role = "assistant"

\* C9: a close that finds the storage available appends one row for every
\* message of the transcript, in transcript order, whatever the length of the
\* transcript.
C9_CloseFlushesAll ==
    [][(lastClose'.count # lastClose.count /\ StorageUp) =>
          /\ Len(messagesTable') = Len(messagesTable) + Len(messages)
          /\ \A i \in 1..Len(messagesTable) : messagesTable'[i] = messagesTable[i]
          /\ \A i \in 1..Len(messages) :
                /\ messagesTable'[Len(messagesTable) + i].role = messages[i].role
                /\ messagesTable'[Len(messagesTable) + i].content
                       = messages[i].content
                /\ messagesTable'[Len(messagesTable) + i].sessionId = sessionId
                /\ messagesTable'[Len(messagesTable) + i].agentType = agentType]_vars

\* a close has flushed a transcript of at most 10 messages, none of which a
\* live turn had written
C9_Witness ==
    /\ lastClose.count = 1
    /\ lastClose.up
    /\ lastClose.len >= 2
    /\ lastClose.len <= MessageThreshold
    /\ lastClose.wrote = lastClose.len
    /\ Len(messagesTable) = lastClose.len

\* the contents the live turns appended to the transcript before the first
\* close released the storage connection, that is, while no storage call of
\* the instance had failed
AppendedBeforeRelease == 1..lastClose.appended

Stored == {messagesTable[i].content : i \in 1..Len(messagesTable)}

\* C10: once every connection of an instance that acquired its storage has
\* closed, every message a live turn appended to the transcript while no
\* storage call had failed is in the messages table.
C10_NoDataLossAtShutdown ==
    (dbOps /\ opened # {} /\ conns = {}) => AppendedBeforeRelease \subseteq Stored

\* C11: restoreConversationHistory never replaces the in-memory transcript
\* once a live chat turn of the instance has read or appended to it: an
\* onConnect that runs after a turn leaves the transcript as it was.
C11_NoRestoreAfterLiveTurn ==
    [][(opened' # opened /\ turn.count > 0) => messages' = messages]_vars

\* C12: every chat turn that ends has made its generation call, whatever
\* became of its storage calls: it ends with the response or with a generation
\* failure, and with no other error.
C12_OnlyGenerationFailuresEndTurn ==
    [][(turn.pc = "resolving" /\ turn'.pc = "idle") => res.pc = "done"]_vars

(***************************************************************************)
(* Claims about the retry policy.                                           *)
(***************************************************************************)
RetryFinished == retry.pc \in {"returned", "threw"}

\* C13: a retry-wrapped call never makes a third attempt, and one whose every
\* attempt fails with CONNECTION_ENDED makes exactly two attempts with one
\* delay between them, then returns null (createSession,
\* getPromptByAgentType, createOrUpdatePrompt) or rethrows (getAgentMessages,
\* getAllPrompts).
C13_RetryBound ==
    /\ retry.attempts <= 2
    /\ (/\ RetryFinished
        /\ retry.errors # <<>>
        /\ Len(retry.errors) = retry.attempts
        /\ \A i \in 1..Len(retry.errors) : retry.errors[i] = "CONNECTION_ENDED")
       => /\ retry.attempts = 2
          /\ retry.delays = 1
          /\ retry.op \in SingleRecordOps =>
                retry.pc = "returned" /\ retry.result = "null"
          /\ retry.op \in ListReadOps =>
                retry.pc = "threw" /\ retry.result = "threw"

\* getAgentMessages has rethrown after two attempts that both failed with
\* CONNECTION_ENDED
C13_Witness ==
    /\ retry.op = "getAgentMessages"
    /\ retry.pc = "threw"
    /\ retry.errors = <<"CONNECTION_ENDED", "CONNECTION_ENDED">>
    /\ retry.delays = 1

\* C14: an attempt that fails with an error other than CONNECTION_ENDED is
\* the last one, no delay follows it, and the call ends at once with null or
\* by rethrowing; a call whose first attempt fails so makes exactly one
\* attempt.
C14_OtherErrorsNotRetried ==
    \A i \in 1..Len(retry.errors) :
        retry.errors[i] = "OTHER" =>
            /\ i = Len(retry.errors)
            /\ retry.attempts = i
            /\ retry.delays = i - 1
            /\ retry.op \in SingleRecordOps =>
                  retry.pc = "returned" /\ retry.result = "null"
            /\ retry.op \in ListReadOps =>
                  retry.pc = "threw" /\ retry.result = "threw"

\* createSession has returned null after one attempt that failed with an
\* error other than CONNECTION_ENDED, and wrote no session row
C14_Witness ==
    /\ retry.op = "createSession"
    /\ retry.pc = "returned"
    /\ retry.result = "null"
    /\ retry.errors = <<"OTHER">>
    /\ retry.attempts = 1
    /\ retry.delays = 0
    /\ sessionsTable = <<>>

(***************************************************************************)
(* Claims about restore.                                                    *)
(***************************************************************************)
\* the stored messages of a role, oldest first
StoredOf(type) == SelectSeq(messagesTable, LAMBDA r : r.agentType = type)

\* the most recent `limit` stored messages of a role, oldest first, as
\* transcript entries
MostRecent(type, limit) ==
    LET all == StoredOf(type)
        n == IF Len(all) <= limit THEN Len(all) ELSE limit
    IN  [i \in 1..n |-> [role |-> all[Len(all) - n + i].role,
                         content |-> all[Len(all) - n + i].content]]

\* C15: with N >= 1 messages of a role saved one after the other at
\* increasing creation times, a restore for the role sets the transcript to
\* all N in the order they were saved when N <= limit, and to the most recent
\* `limit` of them in that order when N > limit.
C15_RoundTrip ==
    [][\A type \in AgentClasses, limit \in Limits :
          (RestoreWithLimit(type, limit) /\ StoredOf(type) # <<>>)
              => messages' = MostRecent(type, limit)]_vars

\* a restore with limit 2 has set the transcript to the two most recent of
\* three stored messages of a role, in the order they were saved
C15_Witness ==
    \E type \in AgentClasses :
        /\ Len(StoredOf(type)) = 3
        /\ Len(messages) = 2
        /\ messages = MostRecent(type, 2)
        /\ messages[1].content < messages[2].content
        /\ messages[1].content = StoredOf(type)[2].content

\* C16: a restore whose read succeeds leaves the transcript equal to exactly
\* the stored messages fetched for the role, with none of the messages that
\* were in memory before; it is empty when the role has no stored message.
C16_RestoreReplacesWholesale ==
    [][(opened' # opened /\ StorageUp)
          => messages' = MostRecent(agentType, RestoreLimit)]_vars

\* C17: an onConnect whose history read fails completes and leaves the
\* instance with an empty transcript.
C17_FailedRestoreLeavesEmpty ==
    [][(opened' # opened /\ dbOps /\ ~StorageUp)
          => (opened' = opened \cup {NextConnection} /\ messages' = <<>>)]_vars

(***************************************************************************)
(* Claims about degraded start and the storage connection.                  *)
(***************************************************************************)
\* C18: an instance whose storage was not acquired makes no storage call in
\* onConnect, onChatMessage or onClose, and each of its chat turns makes the
\* generation call.
C18_DegradedStart ==
    [][~dbOps =>
          /\ messagesTable' = messagesTable
          /\ sessionsTable' = sessionsTable
          /\ sockets' = sockets
          /\ \A x \in IntegrationNames : res'.seen[x] \in {"none", "nocontext"}
          /\ (turn.pc = "resolving" /\ turn'.pc = "idle") => res.pc = "done"]_vars

\* C19: over the onClose calls of an instance the connection's end() is
\* invoked at most once, and an onClose after the first changes nothing of
\* the instance or of the tables.
C19_CloseReleasesOnce ==
    [][/\ sockets'.ended <= 1
       /\ (lastClose'.count # lastClose.count /\ lastClose.count >= 1) =>
             /\ sockets' = sockets
             /\ dbManager' = dbManager
             /\ connEnded' = connEnded
             /\ dbOps' = dbOps
             /\ messages' = messages
             /\ messagesTable' = messagesTable
             /\ sessionsTable' = sessionsTable]_vars

\* a second onClose has run on an instance with a non-empty transcript whose
\* connection the first onClose had ended
C19_Witness ==
    /\ lastClose.count = 2
    /\ lastClose.len > 0
    /\ sockets.created = 1
    /\ sockets.ended = 1
    /\ dbManager = "noconn"

\* C20: a DatabaseManager has at most one live connection: getDb creates one
\* only when the manager holds none and otherwise hands out the one it
\* holds.
C20_AtMostOneLiveConnection ==
    [][/\ sockets'.created - sockets'.ended <= 1
       /\ (dbManager' = "conn") = (sockets'.created - sockets'.ended = 1)
       /\ (budget' # budget /\ dbManager = "conn"
             /\ sockets'.ended = sockets.ended)
             => (sockets'.created = sockets.created
                   /\ sockets'.returned = sockets.current)]_vars

\* getDb was called again on a manager that held a connection, after an
\* earlier connection had been closed and replaced
C20_Witness ==
    /\ sockets.created = 2
    /\ sockets.ended = 1
    /\ sockets.current = 2
    /\ sockets.returned = 2
    /\ dbManager = "conn"
    /\ budget = MaxManagerCalls - 4

\* C21: the storage connection of an instance that acquired one is not ended
\* while a physical connection to the instance is open, and no onConnect runs
\* on an instance whose connection was ended: no storage call of a live
\* instance goes to an ended connection.
C21_ConnectionHeldForLife ==
    [][/\ (dbOps /\ conns' # {}) => ~connEnded'
       /\ (dbOps /\ opened' # opened) => ~connEnded]_vars

\* C22: when onClose releases the storage connection every saveMessage of
\* its flush has settled, as a written row or as a failure, and none is in
\* flight; every onClose that has returned on an instance with a manager has
\* released the connection, whether or not a flush write failed.
C22_FlushSettledBeforeRelease ==
    /\ closing.pendingAtRelease = 0
    /\ closing.pc = "release" =>
          /\ closing.inflight = {}
          /\ (dbOps /\ Len(messages) > 0) =>
                closing.wrote + closing.failed = Len(messages)
    /\ (lastClose.count >= 1 /\ closing.pc = "idle" /\ dbManager # "null") =>
          /\ dbManager = "noconn"
          /\ sockets.ended = 1
          /\ connEnded

\* an onClose has released the connection after a flush of three messages
\* whose second write failed: the first and the third are stored
C22_Witness ==
    /\ closing.pc = "idle"
    /\ closing.released
    /\ lastClose.count = 1
    /\ closing.failed = 1
    /\ closing.wrote = 2
    /\ Len(messages) = 3
    /\ Len(messagesTable) = 2
    /\ messagesTable[1].content = 1
    /\ messagesTable[2].content = 3
    /\ sockets.ended = 1

(***************************************************************************)
(* Claims about sessions.                                                   *)
(***************************************************************************)
\* C23: every onConnect sets the session id of the instance's role,
\* whichever physical connection opens and however many opened before, and
\* the session ids of the two roles differ.
C23_SessionIdOfRole ==
    /\ RouterSessionId # CampaignSessionId
    /\ opened # {} =>
          /\ agentType = "router-agent" => sessionId = RouterSessionId
          /\ agentType = "campaign-agent" => sessionId = CampaignSessionId
    /\ \A i \in 1..Len(sessionsTable) :
          /\ sessionsTable[i].agentType = "router-agent" =>
                sessionsTable[i].id = RouterSessionId
          /\ sessionsTable[i].agentType = "campaign-agent" =>
                sessionsTable[i].id = CampaignSessionId

\* a second physical connection has opened on a router instance while the
\* first is still open: the session id is the one the first connect set
C23_Witness ==
    /\ agentType = "router-agent"
    /\ opened = {"c1", "c2"}
    /\ conns = {"c1", "c2"}
    /\ sessionId = RouterSessionId
    /\ Len(sessionsTable) = 1
    /\ sessionsTable[1].id = RouterSessionId

\* C24: the sessions table never holds two rows of one id; a createSession
\* that succeeds on an id that has a row changes the updatedAt and the
\* metadata of that row and nothing else of the table, and one on an id that
\* has no row appends the row.
C24_CreateSessionUpserts ==
    [][/\ \A i, j \in 1..Len(sessionsTable') :
             sessionsTable'[i].id = sessionsTable'[j].id => i = j
       /\ (/\ budget' # budget
           /\ sessionCall'.op = "createSession"
           /\ sessionCall'.result = "row") =>
             LET data == sessionCall'.data[1]
             IN  IF findSession(sessionsTable, data.id) # <<>>
                 THEN /\ Len(sessionsTable') = Len(sessionsTable)
                      /\ \A i \in 1..Len(sessionsTable) :
                            sessionsTable'[i] =
                               IF sessionsTable[i].id = data.id
                               THEN [sessionsTable[i] EXCEPT
                                        !.updatedAt = now,
                                        !.metadata = data.metadata]
                               ELSE sessionsTable[i]
                 ELSE sessionsTable' =
                         Append(sessionsTable,
                                [id |-> data.id, agentType |-> data.agentType,
                                 agentName |-> data.agentName,
                                 metadata |-> data.metadata,
                                 createdAt |-> now, updatedAt |-> now])]_vars

\* createSession has succeeded at a later instant on an id that had a row,
\* with another agentType, agentName and metadata than the row was created
\* with: the row keeps its createdAt, agentType and agentName
C24_Witness ==
    /\ sessionCall.op = "createSession"
    /\ sessionCall.result = "row"
    /\ Len(sessionsTable) = 1
    /\ sessionsTable[1].id = sessionCall.id
    /\ sessionsTable[1].agentType # sessionCall.data[1].agentType
    /\ sessionsTable[1].agentName # sessionCall.data[1].agentName
    /\ sessionsTable[1].metadata = "m2"
    /\ sessionsTable[1].metadata = sessionCall.data[1].metadata
    /\ sessionsTable[1].createdAt = 0
    /\ sessionsTable[1].updatedAt = 1
    /\ now = 1

\* how many rows of a session the given tables hold
RowsIn(mt, tt, st, id) ==
    <<Len(SelectSeq(mt, LAMBDA r : r.sessionId = id)),
      Len(SelectSeq(tt, LAMBDA r : r.sessionId = id)),
      Len(SelectSeq(st, LAMBDA r : r.id = id))>>

\* C25: while deleteSession(S) is running every reader finds the rows of S
\* in all three tables as they were when it began; when it succeeds no
\* message row, no tool-execution row and no session row of S is left; when
\* one of its statements fails the three tables are as they were when it
\* began.
C25_DeleteSessionAtomic ==
    [][/\ tx'.pc # "idle" =>
             RowsIn(messagesTable', toolExecutionsTable', sessionsTable',
                    tx'.id) = tx'.before
       /\ (tx.pc # "idle" /\ tx'.pc = "idle" /\ tx'.outcome = "committed") =>
             /\ RowsIn(messagesTable', toolExecutionsTable', sessionsTable',
                       tx.id) = <<0, 0, 0>>
             /\ findSession(sessionsTable', tx.id) = <<>>
       /\ (tx.pc # "idle" /\ tx'.pc = "idle" /\ tx'.outcome = "rolledback") =>
             /\ RowsIn(messagesTable', toolExecutionsTable', sessionsTable',
                       tx.id) = tx.before
             /\ messagesTable' = messagesTable
             /\ toolExecutionsTable' = toolExecutionsTable
             /\ sessionsTable' = sessionsTable]_vars

\* deleteSession has committed on a session that had a row in each of the
\* three tables, and a findSession of it afterwards found nothing
C25_Witness ==
    /\ tx.pc = "idle"
    /\ tx.outcome = "committed"
    /\ tx.before = <<1, 1, 1>>
    /\ RowsOfSession(tx.id) = <<0, 0, 0>>
    /\ sessionCall.op = "findSession"
    /\ sessionCall.id = tx.id
    /\ sessionCall.result = "undefined"

\* C30: createSession, findSession and updateSessionMetadata never throw:
\* a call whose storage statement fails returns null or nothing.
C30_SessionStoreNeverThrows ==
    sessionCall.op \in {"createSession", "findSession", "updateSessionMetadata"}
        => sessionCall.result # "threw"

(***************************************************************************)
(* Claims about the /api/integrations routes.                               *)
(***************************************************************************)
\* C26: a POST or DELETE whose name is not an integration is answered 404,
\* and one for an integration without a session id 400, in both cases with
\* no storage connection created and the table unchanged; otherwise the
\* answer is 200 with status connected (POST) or disconnected (DELETE) when
\* the registry call returns, and 500 when it throws.
C26_ValidateBeforeStorage ==
    [][(budget' # budget /\ http'.method \in {"POST", "DELETE"}) =>
          IF http'.name \notin IntegrationNames
          THEN /\ http'.code = 404
               /\ http'.created = 0
               /\ integrationTable' = integrationTable
          ELSE IF http'.sessionId = ""
          THEN /\ http'.code = 400
               /\ http'.created = 0
               /\ integrationTable' = integrationTable
          ELSE IF http'.call = "threw"
          THEN http'.code = 500
          ELSE /\ http'.code = 200
               /\ http'.status = IF http'.method = "POST" THEN "connected"
                                  ELSE "disconnected"]_vars

\* C27: a GET for a session that reads the registry reports an integration
\* connected exactly when the request applied last to the session and the
\* integration was a POST: connected after one POST or several, not
\* connected when no POST was made for it, and not connected after a later
\* DELETE.
C27_GetReportsRegistry ==
    [][(budget' # budget /\ http'.method = "GET" /\ http'.call = "ok") =>
          \A x \in IntegrationNames :
              (x \in http'.connected)
                  = (lastWrite[<<http'.sessionId, x>>] = "connected")]_vars

\* a GET for S1, the fourth request, has reported no integration connected,
\* google-ads having been connected for S1 and then disconnected
C27_Witness ==
    /\ http.method = "GET"
    /\ http.sessionId = "S1"
    /\ http.call = "ok"
    /\ http.connected = {}
    /\ lastWrite[<<"S1", "google-ads">>] = "disconnected"
    /\ Len(integrationTable) = 1
    /\ integrationTable[1].integrationName = "google-ads"
    /\ integrationTable[1].status = "disconnected"
    /\ budget = MaxHttpCalls - 4

(***************************************************************************)
(* Claims about the end of a chat turn.                                     *)
(***************************************************************************)
\* C28: when generation fails in a chat turn, one system-role error record
\* is written if the transcript is longer than 10 and the instance's storage
\* takes the write, and none otherwise; whether or not that save fails, the
\* turn ends with the generation error and changes neither the transcript
\* nor the sessions.
C28_GenerationErrorRethrown ==
    [][(turn.pc = "resolving" /\ res.pc = "done" /\ turn'.pc = "idle"
          /\ gate'.kind = "error") =>
          /\ turn'.error = "generation"
          /\ Len(messagesTable') = Len(messagesTable)
                + (IF dbOps /\ ~connEnded /\ Len(messages) > MessageThreshold
                   THEN 1 ELSE 0)
          /\ \A i \in 1..Len(messagesTable) : messagesTable'[i] = messagesTable[i]
          /\ \A i \in (Len(messagesTable) + 1)..Len(messagesTable') :
                /\ messagesTable'[i].role = "system"
                /\ messagesTable'[i].sessionId = sessionId
          /\ messages' = messages
          /\ sessionsTable' = sessionsTable]_vars

\* generation has failed in a turn on a transcript of 11 messages whose
\* storage connection had been ended: the save of the error record failed
\* and the turn ended with the generation error
C28_Witness ==
    /\ turn.pc = "idle"
    /\ turn.error = "generation"
    /\ gate.kind = "error"
    /\ gate.len = MessageThreshold + 1
    /\ dbOps
    /\ connEnded
    /\ gate.wrote = 0

\* C29: with storage available, every assistant reply that completes
\* refreshes the metadata of the instance's session with the time of the
\* reply, whatever the length of the transcript.
C29_MetadataRefreshedOnEveryReply ==
    [][(turn.pc = "resolving" /\ turn'.pc = "idle" /\ gate'.kind = "assistant"
          /\ StorageUp) =>
          \E i \in 1..Len(sessionsTable') :
              /\ sessionsTable'[i].id = sessionId
              /\ sessionsTable'[i].metadata[1] = "activity"
              /\ sessionsTable'[i].metadata[2] = now]_vars

(***************************************************************************)
(* Claims about the message operations.                                     *)
(***************************************************************************)
\* C31: a saveMessage whose first attempt fails with CONNECTION_ENDED and
\* whose second attempt would succeed is retried and ends with the message
\* row stored.
C31_SaveMessageRetried ==
    (/\ sessionCall.op = "saveMessage"
     /\ sessionCall.data[1] = "CONNECTION_ENDED"
     /\ sessionCall.data[2] = "ok")
        => /\ sessionCall.result = "row"
           /\ \E i \in 1..Len(messagesTable) :
                  messagesTable[i].content = sessionCall.data[3]

\* C39: deleteOldMessages(d) removes every message created before the
\* cutoff, now minus d days, and keeps every message created at the cutoff
\* or after it.
C39_DeleteOldMessages ==
    [][(/\ budget' # budget
        /\ sessionCall'.op = "deleteOldMessages"
        /\ sessionCall'.result = "done")
          => \A i \in 1..Len(messagesTable) :
                (messagesTable[i].createdAt >= sessionCall'.data[2])
                    = (\E j \in 1..Len(messagesTable') :
                          messagesTable'[j] = messagesTable[i])]_vars

(***************************************************************************)
(* Claims about the tool-execution log.                                     *)
(***************************************************************************)
\* C32: a tool-execution row is created with status pending by logToolStart,
\* and the only change it ever undergoes is one update, from pending to
\* success or error together with the output: a row that is no longer
\* pending is never updated again and never returns to pending.
C32_ToolExecutionLifecycle ==
    [][\A i \in 1..Len(toolExecutionsTable') :
          IF i > Len(toolExecutionsTable)
          THEN /\ toolExecutionsTable'[i].status = "pending"
               /\ sessionCall'.op = "logToolStart"
          ELSE toolExecutionsTable'[i] # toolExecutionsTable[i] =>
                  /\ toolExecutionsTable[i].status = "pending"
                  /\ toolExecutionsTable'[i].status \in {"success", "error"}
                  /\ toolExecutionsTable'[i].output # "null"]_vars

(***************************************************************************)
(* Claims about the stored transcript.                                      *)
(***************************************************************************)
\* C33: over connects, chat turns and closes, the messages table never holds
\* two rows for the same transcript message (the error records of failed
\* turns are not transcript messages).
C33_StoredAtMostOnce ==
    \A i, j \in 1..Len(messagesTable) :
        (/\ i # j
         /\ messagesTable[i].metadata # "error"
         /\ messagesTable[j].metadata # "error"
         /\ messagesTable[i].agentType = messagesTable[j].agentType)
            => messagesTable[i].content # messagesTable[j].content

(***************************************************************************)
(* Claims about the resolver and the catalogue.                             *)
(***************************************************************************)
\* C34: the resolution step of a chat turn of a RouterAgent or CampaignAgent
\* instance finds a candidate list for the instance's role and never fails
\* the turn by itself.
C34_EveryRoleResolves ==
    (turn.pc = "resolving" /\ res.caller = "agent") => res.pc # "threw"

\* C35: for every integration a resolution found connected, the tools it
\* returns include every tool the catalogue entry names, and their number
\* is the toolsCount reported for the integration.
C35_BundleIsWholeCatalogueEntry ==
    \A x \in IntegrationNames :
        res.seen[x] = "connected" =>
            /\ integrations[x] \subseteq res.tools
            /\ Cardinality(res.tools \cap integrations[x])
                   = getIntegrationStatus(x).toolsCount

(***************************************************************************)
(* Claims about the GET route and the handlers' storage connections.        *)
(***************************************************************************)
\* C36: GET /api/integrations reports an integration as connected only when
\* the registry holds a row of the requested session for it with status
\* connected, also when the read fails and when no session id is given.
C36_GetNeverReportsUnconnected ==
    http.method = "GET" =>
        \A x \in http.connected :
            \E i \in 1..Len(integrationTable) :
                /\ integrationTable[i].sessionId = http.sessionId
                /\ integrationTable[i].integrationName = x
                /\ integrationTable[i].status = "connected"

\* C37: every storage connection a handler of /api/integrations opened has
\* been closed when the handler has returned its response, whether or not
\* its registry call threw.
C37_HandlerClosesItsConnection ==
    http.method # "none" => http.ended = http.created

(***************************************************************************)
(* Claims about what deleteSession removes.                                 *)
(***************************************************************************)
\* C38: when deleteSession(S) has succeeded, no integration-connection row
\* of S is left, so a resolution for a session created again under the id S
\* finds no integration connected.
C38_DeleteSessionCascades ==
    [][(tx.pc # "idle" /\ tx'.pc = "idle" /\ tx'.outcome = "committed") =>
          /\ \A i \in 1..Len(integrationTable') :
                 integrationTable'[i].sessionId # tx.id
          /\ \A x \in IntegrationNames :
                 ~isConnectedIn(getSessionIntegrations(integrationTable',
                                                       tx.id), x)]_vars

=============================================================================
